---- MODULE Spec2Model ----
(***************************************************************************)
(* Model of the cosmos-mcp dynamic tool server                             *)
(* (src/fastmcp-server/server_dynamic.py, server_dynamic_v2.py).           *)
(*                                                                         *)
(* Text is a sequence of tokens: a token is one character where the code   *)
(* looks at single characters ("{", "[", "_", a digit, a quote) and an     *)
(* atomic chunk of characters elsewhere ("Error executing ", "alpha").     *)
(* Python string concatenation is \o, startswith(c) looks at the first     *)
(* token, "x in text" is a contiguous sub-sequence.                        *)
(*                                                                         *)
(* Python values are records [k |-> kind, v |-> payload].                  *)
(***************************************************************************)
EXTENDS Integers, Sequences, FiniteSets, TLC

VARIABLES
    namespace,        \* dir(script): member name -> what it is bound to
    pc,               \* position in the module-level script of server_dynamic.py
    idx,              \* position of the running loop / decorator list
    built,            \* names create_openc3_tool was called with, in order
    registry,         \* the FastMCP tool registry, in insertion order
    registered_count, \* server_dynamic.py:222
    skipped_count,    \* server_dynamic.py:223
    startup_error,    \* the exception that aborted the module, or NoError
    session,          \* session id -> Uninitialized / Initialized / Closed
    sent,             \* every request a client has sent
    wire,             \* requests sent by clients and not yet handled
    responses,        \* responses written by the gateway, in order
    handled,          \* per response: the request handled and how it was handled
    nextCid,          \* session id -> next correlation id the client uses
    call,             \* the adapter call under test (tool, kwargs, host behaviour)
    outcome,          \* what that adapter call did
    failed_builds,    \* names printed as "Failed to register", in order
    retrieved,        \* names getattr(script, name) was evaluated for, in order
    stream,           \* one invocation of stream_ping and what it has produced
    running           \* the call whose adapter is inside its host function, or Idle

vars == <<namespace, pc, idx, built, registry, registered_count, skipped_count,
          startup_error, session, sent, wire, responses, handled, nextCid,
          call, outcome, failed_builds, retrieved, stream, running>>

regVars == <<namespace, pc, idx, built, registry, registered_count, skipped_count,
             startup_error, failed_builds, retrieved>>
gwVars == <<session, sent, wire, responses, handled, nextCid>>
adVars == <<call, outcome>>
exVars == <<stream, running>>

----------------------------------------------------------------------------
(* Bounds *)

MaxStrLen == 2       \* longest exhaustively enumerated argument string
MaxMembers == 3      \* most members of the host namespace in one run
MaxRequests == 2     \* most requests one session sends
MaxArgs == 2         \* most keyword arguments of one generic adapter call
MaxNumLen == 3       \* longest exhaustively enumerated expected_value of cosmos_check
MaxCount == 5        \* largest count stream_ping is invoked with

----------------------------------------------------------------------------
(* Text *)

StartsWith(text, ch) == Len(text) > 0 /\ text[1] = ch

Contains(text, sub) ==
    \E i \in 0 .. (Len(text) - Len(sub)) :
        \A j \in 1 .. Len(sub) : text[i + j] = sub[j]

RECURSIVE SeqsUpTo(_, _)
SeqsUpTo(alphabet, n) ==
    IF n = 0 THEN {<<>>}
    ELSE LET shorter == SeqsUpTo(alphabet, n - 1)
         IN  shorter \cup {Append(s, a) : s \in {t \in shorter : Len(t) = n - 1},
                                          a \in alphabet}

----------------------------------------------------------------------------
(* Python values *)

PyNone == [k |-> "none", v |-> 0]
PyInt(n) == [k |-> "int", v |-> n]
PyBool(b) == [k |-> "bool", v |-> b]
PyStr(text) == [k |-> "str", v |-> text]
PyList(items) == [k |-> "list", v |-> items]
PyDict(pairs) == [k |-> "dict", v |-> pairs]      \* pairs: <<key text, value>>
PyObject(name) == [k |-> "object", v |-> name]    \* any other host object

IsStr(val) == val.k = "str"

\* d[key] = val on a dict kept as an insertion-ordered sequence of pairs
RECURSIVE DictSet(_, _, _)
DictSet(pairs, key, val) ==
    IF pairs = <<>> THEN <<<<key, val>>>>
    ELSE IF Head(pairs)[1] = key THEN <<<<key, val>>>> \o Tail(pairs)
    ELSE <<Head(pairs)>> \o DictSet(Tail(pairs), key, val)

Digits == <<"0", "1", "2", "3", "4", "5", "6", "7", "8", "9">>
DigitSet == {Digits[i] : i \in 1 .. 10}
DigitValue(tok) == (CHOOSE i \in 1 .. 10 : Digits[i] = tok) - 1

RECURSIVE IntToText(_)
IntToText(n) ==
    IF n < 10 THEN <<Digits[n + 1]>>
    ELSE IntToText(n \div 10) \o <<Digits[(n % 10) + 1]>>

\* str(x) and repr(x)
RECURSIVE PyRepr(_), ReprItems(_), ReprPairs(_)
PyRepr(val) ==
    CASE val.k = "none" -> <<"None">>
      [] val.k = "int" -> IntToText(val.v)
      [] val.k = "bool" -> IF val.v THEN <<"True">> ELSE <<"False">>
      [] val.k = "str" -> <<"'">> \o val.v \o <<"'">>
      [] val.k = "list" -> <<"[">> \o ReprItems(val.v) \o <<"]">>
      [] val.k = "dict" -> <<"{">> \o ReprPairs(val.v) \o <<"}">>
      [] OTHER -> <<"<", val.v, ">">>
ReprItems(items) ==
    IF items = <<>> THEN <<>>
    ELSE PyRepr(Head(items))
         \o (IF Len(items) > 1 THEN <<",", " ">> ELSE <<>>)
         \o ReprItems(Tail(items))
ReprPairs(pairs) ==
    IF pairs = <<>> THEN <<>>
    ELSE <<"'">> \o Head(pairs)[1] \o <<"'", ":", " ">> \o PyRepr(Head(pairs)[2])
         \o (IF Len(pairs) > 1 THEN <<",", " ">> ELSE <<>>)
         \o ReprPairs(Tail(pairs))

PyToStr(val) == IF val.k = "str" THEN val.v ELSE PyRepr(val)

\* truthiness, as `if x:` tests it
Truthy(val) ==
    CASE val.k = "none" -> FALSE
      [] val.k = "int" -> val.v # 0
      [] val.k = "bool" -> val.v
      [] val.k \in {"str", "list", "dict"} -> val.v # <<>>
      [] OTHER -> TRUE

----------------------------------------------------------------------------
(* json.loads, on the subset: arrays, objects, strings without escapes,    *)
(* non-negative integers, true / false / null, blanks and newlines.       *)

Whitespace == {" ", "\n"}

ParseFail == [ok |-> FALSE, val |-> PyNone, next |-> 0]
ParseOk(val, next) == [ok |-> TRUE, val |-> val, next |-> next]

RECURSIVE SkipWs(_, _)
SkipWs(s, i) == IF i <= Len(s) /\ s[i] \in Whitespace THEN SkipWs(s, i + 1) ELSE i

\* the characters after an opening quote, up to the closing quote
RECURSIVE ParseStringBody(_, _, _)
ParseStringBody(s, i, acc) ==
    IF i > Len(s) THEN ParseFail
    ELSE IF s[i] = "\"" THEN ParseOk(PyStr(acc), i + 1)
    ELSE IF s[i] = "\n" THEN ParseFail
    ELSE ParseStringBody(s, i + 1, Append(acc, s[i]))

\* the digits after a first non-zero digit
RECURSIVE ParseDigits(_, _, _)
ParseDigits(s, i, n) ==
    IF i <= Len(s) /\ s[i] \in DigitSet
    THEN ParseDigits(s, i + 1, 10 * n + DigitValue(s[i]))
    ELSE ParseOk(PyInt(n), i)

RECURSIVE ParseValue(_, _), ParseElems(_, _, _), ParseMembers(_, _, _)
ParseValue(s, i0) ==
    LET i == SkipWs(s, i0)
    IN  IF i > Len(s) THEN ParseFail
        ELSE CASE s[i] = "[" ->
                    LET j == SkipWs(s, i + 1)
                    IN  IF j <= Len(s) /\ s[j] = "]"
                        THEN ParseOk(PyList(<<>>), j + 1)
                        ELSE ParseElems(s, j, <<>>)
               [] s[i] = "{" ->
                    LET j == SkipWs(s, i + 1)
                    IN  IF j <= Len(s) /\ s[j] = "}"
                        THEN ParseOk(PyDict(<<>>), j + 1)
                        ELSE ParseMembers(s, j, <<>>)
               [] s[i] = "\"" -> ParseStringBody(s, i + 1, <<>>)
               [] s[i] = "0" -> ParseOk(PyInt(0), i + 1)
               [] s[i] \in DigitSet \ {"0"} -> ParseDigits(s, i + 1, DigitValue(s[i]))
               [] s[i] = "true" -> ParseOk(PyBool(TRUE), i + 1)
               [] s[i] = "false" -> ParseOk(PyBool(FALSE), i + 1)
               [] s[i] = "null" -> ParseOk(PyNone, i + 1)
               [] OTHER -> ParseFail
ParseElems(s, i, acc) ==
    LET r == ParseValue(s, i)
    IN  IF ~r.ok THEN ParseFail
        ELSE LET j == SkipWs(s, r.next)
             IN  IF j > Len(s) THEN ParseFail
                 ELSE IF s[j] = "," THEN ParseElems(s, j + 1, Append(acc, r.val))
                 ELSE IF s[j] = "]" THEN ParseOk(PyList(Append(acc, r.val)), j + 1)
                 ELSE ParseFail
ParseMembers(s, i, acc) ==
    LET j == SkipWs(s, i)
    IN  IF j > Len(s) \/ s[j] # "\"" THEN ParseFail
        ELSE LET key == ParseStringBody(s, j + 1, <<>>)
             IN  IF ~key.ok THEN ParseFail
                 ELSE LET c == SkipWs(s, key.next)
                      IN  IF c > Len(s) \/ s[c] # ":" THEN ParseFail
                          ELSE LET r == ParseValue(s, c + 1)
                               IN  IF ~r.ok THEN ParseFail
                                   ELSE LET e == SkipWs(s, r.next)
                                            d == DictSet(acc, key.val.v, r.val)
                                        IN  IF e > Len(s) THEN ParseFail
                                            ELSE IF s[e] = "," THEN ParseMembers(s, e + 1, d)
                                            ELSE IF s[e] = "}" THEN ParseOk(PyDict(d), e + 1)
                                            ELSE ParseFail

\* json.loads(text): ok = FALSE stands for json.JSONDecodeError
JsonLoads(text) ==
    LET r == ParseValue(text, 1)
    IN  IF r.ok /\ SkipWs(text, r.next) = Len(text) + 1
        THEN [ok |-> TRUE, val |-> r.val]
        ELSE [ok |-> FALSE, val |-> PyNone]

----------------------------------------------------------------------------
(* json.dumps(x, indent=2) *)

Indent(level) == [i \in 1 .. (2 * level) |-> " "]

TypeName(val) ==
    CASE val.k = "none" -> "NoneType"
      [] val.k = "object" -> val.v
      [] OTHER -> val.k

DumpFail(val) ==
    [ok |-> FALSE,
     text |-> <<"Object of type ", TypeName(val), " is not JSON serializable">>]
DumpOk(text) == [ok |-> TRUE, text |-> text]

RECURSIVE Dumps(_, _), DumpItems(_, _), DumpPairs(_, _)
Dumps(val, level) ==
    CASE val.k = "none" -> DumpOk(<<"null">>)
      [] val.k = "int" -> DumpOk(IntToText(val.v))
      [] val.k = "bool" -> DumpOk(IF val.v THEN <<"true">> ELSE <<"false">>)
      [] val.k = "str" -> DumpOk(<<"\"">> \o val.v \o <<"\"">>)
      [] val.k = "list" ->
            IF val.v = <<>> THEN DumpOk(<<"[", "]">>)
            ELSE LET r == DumpItems(val.v, level + 1)
                 IN  IF r.ok
                     THEN DumpOk(<<"[", "\n">> \o r.text \o <<"\n">> \o Indent(level) \o <<"]">>)
                     ELSE r
      [] val.k = "dict" ->
            IF val.v = <<>> THEN DumpOk(<<"{", "}">>)
            ELSE LET r == DumpPairs(val.v, level + 1)
                 IN  IF r.ok
                     THEN DumpOk(<<"{", "\n">> \o r.text \o <<"\n">> \o Indent(level) \o <<"}">>)
                     ELSE r
      [] OTHER -> DumpFail(val)
DumpItems(items, level) ==
    LET first == Dumps(Head(items), level)
    IN  IF ~first.ok THEN first
        ELSE IF Len(items) = 1 THEN DumpOk(Indent(level) \o first.text)
        ELSE LET rest == DumpItems(Tail(items), level)
             IN  IF ~rest.ok THEN rest
                 ELSE DumpOk(Indent(level) \o first.text \o <<",", "\n">> \o rest.text)
DumpPairs(pairs, level) ==
    LET first == Dumps(Head(pairs)[2], level)
        key == <<"\"">> \o Head(pairs)[1] \o <<"\"", ":", " ">>
    IN  IF ~first.ok THEN first
        ELSE IF Len(pairs) = 1 THEN DumpOk(Indent(level) \o key \o first.text)
        ELSE LET rest == DumpPairs(Tail(pairs), level)
             IN  IF ~rest.ok THEN rest
                 ELSE DumpOk(Indent(level) \o key \o first.text \o <<",", "\n">>
                             \o rest.text)

\* json.dumps(val, indent=2): ok = FALSE stands for TypeError, text its message
JsonDumps(val) == Dumps(val, 0)

----------------------------------------------------------------------------
(* The host namespace (openc3.script) and the registration tables *)

\* Names the host namespace may hold, in the order dir() lists them
\* (sorted by code point: upper case, then "_", then lower case).
NameOrder ==
    << <<"Packet">>, <<"_", "private">>, <<"alpha">>, <<"ask">>, <<"beta">>,
       <<"cmd">>, <<"cmd_raw">>, <<"get_target_list">> >>

NameUniverse == {NameOrder[i] : i \in 1 .. Len(NameOrder)}

\* What a name is bound to: a plain function, a class, or a non-callable constant
Kinds == {"function", "class", "constant"}
IsCallable(kind) == kind \in {"function", "class"}      \* callable(obj)
IsClass(kind) == kind = "class"                         \* inspect.isclass(obj)

Namespaces ==
    UNION {[names -> Kinds] : names \in {n \in SUBSET NameUniverse :
                                            Cardinality(n) <= MaxMembers}}

\* dir(script): the names of the namespace, sorted
RECURSIVE DirFrom(_, _)
DirFrom(ns, i) ==
    IF i > Len(NameOrder) THEN <<>>
    ELSE (IF NameOrder[i] \in DOMAIN ns THEN <<NameOrder[i]>> ELSE <<>>)
         \o DirFrom(ns, i + 1)
Dir(ns) == DirFrom(ns, 1)

SKIP_FUNCTIONS ==
    { <<"_", "file_dialog">>, <<"current_functions">>,
      <<"extract_fields_from_check_text">>,
      <<"extract_fields_from_cmd_text">>,
      <<"extract_fields_from_set_tlm_text">>,
      <<"extract_fields_from_tlm_text">>,
      <<"extract_string_kwargs_to_args">>, <<"initialize_offline_access">>,
      <<"offline_access_needed">>, <<"set_offline_access">>,
      <<"remove_quotes">>, <<"is_array">>, <<"is_float">>, <<"is_hex">>,
      <<"is_int">>, <<"hex_to_byte_string">>, <<"convert_to_value">>,
      <<"normalize_tlm">>, <<"ask">>, <<"ask_string">>, <<"combo_box">>,
      <<"message_box">>, <<"vertical_message_box">>, <<"prompt">>,
      <<"open_file_dialog">>, <<"open_files_dialog">>, <<"cosmos_calendar">>,
      <<"clear_all_screens">>, <<"clear_screen">>, <<"create_screen">>,
      <<"delete_screen">>, <<"display_screen">>, <<"get_screen_definition">>,
      <<"get_screen_list">>, <<"local_screen">>, <<"screen">>,
      <<"disconnect_script">>, <<"goto">>, <<"load_utility">>,
      <<"shutdown_script">>, <<"start">>, <<"step_mode">>, <<"run_mode">>,
      <<"contextmanager">>, <<"datetime">>, <<"exceptions">>, <<"func">>,
      <<"function">>, <<"io">>, <<"json">>, <<"method">>, <<"openc3">>,
      <<"os">>, <<"re">>, <<"requests">>, <<"sys">>, <<"tempfile">>,
      <<"threading">>, <<"time">>, <<"typing">>, <<"storage">>, <<"code">>,
      <<"ApiServerProxy">>, <<"ScriptServerProxy">>, <<"LocalMode">>,
      <<"Packet">>, <<"CheckError">>, <<"CriticalCmdError">>,
      <<"HazardousError">>, <<"SkipScript">>, <<"StopScript">>,
      <<"OpenC3KeycloakAuthentication">>, <<"Optional">>, <<"API_SERVER">>,
      <<"ARRAY_CHECK_REGEX">>, <<"DEFAULT_TLM_POLLING_RATE">>,
      <<"DISCONNECT">>, <<"FLOAT_CHECK_REGEX">>, <<"HEX_CHECK_REGEX">>,
      <<"INT_CHECK_REGEX">>, <<"LIMITS_METHODS">>, <<"OPENC3_CLOUD">>,
      <<"OPENC3_IN_CLUSTER">>, <<"OPENC3_KEYCLOAK_URL">>, <<"OPENC3_SCOPE">>,
      <<"RUNNING_SCRIPT">>, <<"SCANNING_REGULAR_EXPRESSION">>,
      <<"SCIENTIFIC_CHECK_REGEX">>, <<"SCRIPT_RUNNER_API_SERVER">>,
      <<"SPLIT_WITH_REGEX">>, <<"WHITELIST">>, <<"openc3_script_sleep">>,
      <<"wait">>, <<"wait_check">>, <<"wait_check_expression">>,
      <<"wait_check_packet">>, <<"wait_check_tolerance">>,
      <<"wait_expression">>, <<"wait_packet">>, <<"wait_tolerance">> }

CUSTOM_IMPLEMENTATIONS ==
    { <<"cmd">>, <<"cmd_raw">>, <<"tlm">>, <<"tlm_raw">>, <<"tlm_formatted">>,
      <<"tlm_with_units">>, <<"check">>, <<"check_expression">>,
      <<"check_formatted">>, <<"check_raw">>, <<"check_tolerance">>,
      <<"check_with_units">> }

\* tool_wrapper.__name__ = f"openc3_{func_name}"
ExposedName(func_name) == <<"openc3_">> \o func_name

\* The tools decorated with @mcp.tool before the loop
PingTools == << <<"ping">>, <<"stream_ping">> >>

\* The hand-written tools decorated with @mcp.tool after the loop, in order
OverrideTools ==
    << <<"openc3_", "cmd">>, <<"openc3_", "tlm">>, <<"openc3_", "check">>,
       <<"openc3_", "get_target_list">>, <<"openc3_", "get_all_commands">>,
       <<"openc3_", "get_all_telemetry">> >>

OverrideNames == {OverrideTools[i] : i \in 1 .. Len(OverrideTools)}

\* Classify without the `name in SKIP_FUNCTIONS` test
ClassifyNoSkipList(name, kind) ==
    IF StartsWith(name, "_") THEN "private"
    ELSE IF name \in CUSTOM_IMPLEMENTATIONS THEN "overridden"
    ELSE IF IsCallable(kind) /\ ~IsClass(kind) THEN "accepted"
    ELSE "not_callable"

\* Classify without the `name.startswith('_')` test
ClassifyNoPrivateTest(name, kind) ==
    IF name \in SKIP_FUNCTIONS THEN "denylisted"
    ELSE IF name \in CUSTOM_IMPLEMENTATIONS THEN "overridden"
    ELSE IF IsCallable(kind) /\ ~IsClass(kind) THEN "accepted"
    ELSE "not_callable"

\* Classify without the `not inspect.isclass(obj)` test
ClassifyAcceptsClasses(name, kind) ==
    IF StartsWith(name, "_") THEN "private"
    ELSE IF name \in SKIP_FUNCTIONS THEN "denylisted"
    ELSE IF name \in CUSTOM_IMPLEMENTATIONS THEN "overridden"
    ELSE IF IsCallable(kind) THEN "accepted"
    ELSE "not_callable"

\* The decision the loop body takes for one name, by the first test that matches
Classify(name, kind) ==
    IF StartsWith(name, "_") THEN "private"
    ELSE IF name \in SKIP_FUNCTIONS THEN "denylisted"
    ELSE IF name \in CUSTOM_IMPLEMENTATIONS THEN "overridden"
    ELSE IF IsCallable(kind) /\ ~IsClass(kind) THEN "accepted"
    ELSE "not_callable"

----------------------------------------------------------------------------
(* The tool registry behind mcp.tool *)

NoError == <<>>
DuplicateName(name) == <<"DuplicateName", ":", " ">> \o name

GenericEntry(func_name) ==
    [name |-> ExposedName(func_name), origin |-> "generic", func_name |-> func_name]
HandwrittenEntry(name) ==
    [name |-> name, origin |-> "handwritten", func_name |-> <<>>]

\* a wrapper that reads the loop's variable `name` when it is called: after the
\* loop that is the last name of dir(script)
BoundMemberOfLoopVariable(entry) == Dir(namespace)[Len(Dir(namespace))]

\* The func_name / func_obj a tool_wrapper refers to: the parameters of the
\* create_openc3_tool call that made it
BoundMember(entry) == entry.func_name

RegistryNames(reg) == {reg[i].name : i \in 1 .. Len(reg)}

\* register that replaces an entry of the same name instead of failing
RegisterOverwrite(reg, entry) ==
    IF entry.name \in RegistryNames(reg)
    THEN [ok |-> TRUE,
          reg |-> [i \in 1 .. Len(reg) |->
                      IF reg[i].name = entry.name THEN entry ELSE reg[i]],
          error |-> NoError]
    ELSE [ok |-> TRUE, reg |-> Append(reg, entry), error |-> NoError]

\* register(descriptor): fails with DuplicateName when the name is present
Register(reg, entry) ==
    IF entry.name \in RegistryNames(reg)
    THEN [ok |-> FALSE, reg |-> reg, error |-> DuplicateName(entry.name)]
    ELSE [ok |-> TRUE, reg |-> Append(reg, entry), error |-> NoError]

\* lookup(name): the position of the entry, 0 for NotFound
Lookup(reg, name) ==
    IF name \in RegistryNames(reg)
    THEN CHOOSE i \in 1 .. Len(reg) : reg[i].name = name
    ELSE 0

\* list(): the descriptor metadata in registry order
ListTools(reg) == [i \in 1 .. Len(reg) |-> reg[i].name]

----------------------------------------------------------------------------
(* Module-level script of server_dynamic.py: ping tools, loop, overrides *)

\* @mcp.tool on ping and stream_ping
RegisterPingTool ==
    /\ pc = "ping_tools"
    /\ LET r == Register(registry, HandwrittenEntry(PingTools[idx]))
       IN  IF r.ok
           THEN /\ registry' = r.reg
                /\ startup_error' = startup_error
                /\ IF idx < Len(PingTools)
                   THEN pc' = pc /\ idx' = idx + 1
                   ELSE pc' = "loop" /\ idx' = 1
           ELSE /\ pc' = "failed"
                /\ startup_error' = r.error
                /\ UNCHANGED <<registry, idx>>
    /\ UNCHANGED <<namespace, built, registered_count, skipped_count, failed_builds,
                   retrieved>>
    /\ UNCHANGED gwVars
    /\ UNCHANGED <<adVars, exVars>>

\* a loop without the try: a build that raises stops the script
LoopIterationAbortsOnRaise ==
    /\ pc = "loop"
    /\ idx <= Len(Dir(namespace))
    /\ LET name == Dir(namespace)[idx]
           decision == Classify(name, namespace[name])
       IN  CASE decision \in {"private", "denylisted"} ->
                    /\ skipped_count' = skipped_count + 1
                    /\ pc' = pc
                    /\ UNCHANGED <<built, registry, registered_count, failed_builds,
                                   retrieved>>
             [] decision = "overridden" ->
                    /\ pc' = pc
                    /\ UNCHANGED <<built, registry, registered_count, skipped_count,
                                   failed_builds, retrieved>>
             [] decision = "not_callable" ->
                    /\ pc' = pc
                    /\ retrieved' = Append(retrieved, name)
                    /\ UNCHANGED <<built, registry, registered_count, skipped_count,
                                   failed_builds>>
             [] decision = "accepted" ->
                    \E build_raises \in BOOLEAN :
                        LET r == Register(registry, GenericEntry(name))
                        IN  /\ built' = Append(built, name)
                            /\ retrieved' = Append(retrieved, name)
                            /\ IF ~build_raises /\ r.ok
                               THEN /\ registry' = r.reg
                                    /\ registered_count' = registered_count + 1
                                    /\ pc' = pc
                                    /\ UNCHANGED <<skipped_count, failed_builds>>
                               ELSE /\ pc' = "failed"
                                    /\ failed_builds' = Append(failed_builds, name)
                                    /\ UNCHANGED <<registry, registered_count,
                                                   skipped_count>>
    /\ idx' = idx + 1
    /\ UNCHANGED <<namespace, startup_error>>
    /\ UNCHANGED gwVars
    /\ UNCHANGED <<adVars, exVars>>

\* One iteration of `for name in dir(script)`; build_raises: create_openc3_tool
\* or mcp.tool raised inside the try
LoopIteration ==
    /\ pc = "loop"
    /\ idx <= Len(Dir(namespace))
    /\ LET name == Dir(namespace)[idx]
           decision == Classify(name, namespace[name])
       IN  CASE decision \in {"private", "denylisted"} ->
                    /\ skipped_count' = skipped_count + 1
                    /\ UNCHANGED <<built, registry, registered_count, failed_builds,
                                   retrieved>>
             [] decision = "overridden" ->
                    UNCHANGED <<built, registry, registered_count, skipped_count,
                                failed_builds, retrieved>>
             [] decision = "not_callable" ->
                    /\ retrieved' = Append(retrieved, name)
                    /\ UNCHANGED <<built, registry, registered_count, skipped_count,
                                   failed_builds>>
             [] decision = "accepted" ->
                    \E build_raises \in BOOLEAN :
                        LET r == Register(registry, GenericEntry(name))
                        IN  /\ built' = Append(built, name)
                            /\ retrieved' = Append(retrieved, name)
                            /\ IF ~build_raises /\ r.ok
                               THEN /\ registry' = r.reg
                                    /\ registered_count' = registered_count + 1
                                    /\ UNCHANGED <<skipped_count, failed_builds>>
                               ELSE /\ skipped_count' = skipped_count + 1
                                    /\ failed_builds' = Append(failed_builds, name)
                                    /\ UNCHANGED <<registry, registered_count>>
    /\ idx' = idx + 1
    /\ UNCHANGED <<namespace, pc, startup_error>>
    /\ UNCHANGED gwVars
    /\ UNCHANGED <<adVars, exVars>>

\* The loop is exhausted: the script goes on to the hand-written tools
LoopExit ==
    /\ pc = "loop"
    /\ idx > Len(Dir(namespace))
    /\ pc' = "overrides"
    /\ idx' = 1
    /\ UNCHANGED <<namespace, built, registry, registered_count, skipped_count,
                   startup_error, failed_builds, retrieved>>
    /\ UNCHANGED gwVars
    /\ UNCHANGED <<adVars, exVars>>

\* @mcp.tool on one hand-written openc3_* tool; it is not inside a try, so a
\* registration error aborts the module
RegisterOverride ==
    /\ pc = "overrides"
    /\ LET r == Register(registry, HandwrittenEntry(OverrideTools[idx]))
       IN  IF r.ok
           THEN /\ registry' = r.reg
                /\ startup_error' = startup_error
                /\ IF idx < Len(OverrideTools)
                   THEN pc' = pc /\ idx' = idx + 1
                   ELSE pc' = "registered" /\ idx' = 0
           ELSE /\ pc' = "failed"
                /\ startup_error' = r.error
                /\ UNCHANGED <<registry, idx>>
    /\ UNCHANGED <<namespace, built, registered_count, skipped_count, failed_builds,
                   retrieved>>
    /\ UNCHANGED gwVars
    /\ UNCHANGED <<adVars, exVars>>

Sessions == {"s1", "s2"}

\* No client has connected yet
GatewayIdle ==
    /\ session = [s \in Sessions |-> "Uninitialized"]
    /\ sent = {}
    /\ wire = {}
    /\ responses = <<>>
    /\ handled = <<>>
    /\ nextCid = [s \in Sessions |-> 1]

NoCall == [tool |-> "none"]
NoStream == [phase |-> "none"]
Idle == [busy |-> FALSE]

\* No stream_ping is running and no adapter is inside a host function
ExtrasIdle == stream = NoStream /\ running = Idle
NoOutcome == [done |-> FALSE, text |-> <<>>, backend |-> <<>>, propagated |-> FALSE]

\* The state after `mcp = FastMCP(...)`, for a host namespace out of nss
ModuleStart(nss) ==
    /\ namespace \in nss
    /\ pc = "ping_tools"
    /\ idx = 1
    /\ built = <<>>
    /\ registry = <<>>
    /\ registered_count = 0
    /\ skipped_count = 0
    /\ startup_error = NoError
    /\ failed_builds = <<>>
    /\ retrieved = <<>>
    /\ GatewayIdle
    /\ call = NoCall
    /\ outcome = NoOutcome
    /\ ExtrasIdle

InitReg == ModuleStart(Namespaces)

NextReg == RegisterPingTool \/ LoopIteration \/ LoopExit \/ RegisterOverride

SpecReg == InitReg /\ [][NextReg]_vars

----------------------------------------------------------------------------
(* Registration claims *)

GenericEntries(reg) == {i \in 1 .. Len(reg) : reg[i].origin = "generic"}

IsPrivateOrSkipped(name) == StartsWith(name, "_") \/ name \in SKIP_FUNCTIONS

\* C1: a name that begins with "_" or is in SKIP_FUNCTIONS is never built into
\* a generic tool and never registered as openc3_<name>, whatever it is bound to.
C1_SkippedNeverBuilt ==
    /\ \A i \in 1 .. Len(built) : ~IsPrivateOrSkipped(built[i])
    /\ \A i \in GenericEntries(registry) : ~IsPrivateOrSkipped(registry[i].func_name)
    /\ \A name \in DOMAIN namespace :
           IsPrivateOrSkipped(name) => ExposedName(name) \notin RegistryNames(registry)

\* The loop has passed a private function and a denylisted function and has
\* registered another member.
C1_Witness ==
    /\ pc = "overrides"
    /\ \E p, s \in DOMAIN namespace :
           /\ StartsWith(p, "_") /\ namespace[p] = "function"
           /\ s \in SKIP_FUNCTIONS /\ namespace[s] = "function"
    /\ registered_count = 1

NoDuplicateNames(reg) ==
    \A i, j \in 1 .. Len(reg) : i # j => reg[i].name # reg[j].name

\* C2: registry names stay unique, and registering a hand-written tool whose
\* name a generic tool already holds aborts startup with a duplicate-name
\* error, leaving the registry as it was.
C2_DuplicateNameFails ==
    /\ [](NoDuplicateNames(registry))
    /\ [][(pc = "overrides" /\ OverrideTools[idx] \in RegistryNames(registry))
            => /\ pc' = "failed"
               /\ startup_error' = DuplicateName(OverrideTools[idx])
               /\ registry' = registry]_vars

\* Startup was aborted by the collision and the generic entry is still there.
C2_Witness ==
    /\ pc = "failed"
    /\ startup_error = DuplicateName(<<"openc3_", "get_target_list">>)
    /\ \E i \in GenericEntries(registry) :
           registry[i].name = <<"openc3_", "get_target_list">>

\* C3: the generic loop never builds a tool whose exposed name is that of a
\* hand-written override tool.
C3_OverrideNamesReserved ==
    /\ \A i \in 1 .. Len(built) : ExposedName(built[i]) \notin OverrideNames
    /\ \A i \in GenericEntries(registry) : registry[i].name \notin OverrideNames

IsPrefix(a, b) == Len(a) <= Len(b) /\ SubSeq(b, 1, Len(a)) = a

InSeq(x, seq) == \E k \in 1 .. Len(seq) : seq[k] = x

GenericallyRegistered(name) ==
    \E k \in GenericEntries(registry) : registry[k].func_name = name

\* C15: an iteration of the registration loop, raising or not, goes on to the
\* next name, aborts nothing and keeps every entry the registry held; and once
\* the loop is over every name it accepted is either reported as failed or
\* registered as a generic tool, never both and never neither.
C15_FailureSkipsOneCandidate ==
    /\ [][(pc = "loop" /\ idx <= Len(Dir(namespace)))
            => /\ pc' = "loop"
               /\ idx' = idx + 1
               /\ startup_error' = startup_error
               /\ IsPrefix(registry, registry')]_vars
    /\ [](pc \notin {"ping_tools", "loop"}
            => \A name \in DOMAIN namespace :
                   (Classify(name, namespace[name]) = "accepted")
                       => (InSeq(name, failed_builds) <=> ~GenericallyRegistered(name)))

\* The build of beta raised; alpha before it and get_target_list after it are
\* registered.
C15_Witness ==
    /\ pc = "overrides"
    /\ failed_builds = << <<"beta">> >>
    /\ \E i, j \in GenericEntries(registry) :
           /\ i < j
           /\ registry[i].func_name = <<"alpha">>
           /\ registry[j].func_name = <<"get_target_list">>

\* The host namespace of scenario 1: functions alpha, _private and ask
ScenarioOne ==
    /\ DOMAIN namespace = {<<"alpha">>, <<"_", "private">>, <<"ask">>}
    /\ \A name \in DOMAIN namespace : namespace[name] = "function"

\* Registration over scenario 1 ran to its end and no build raised
ScenarioOneRegistered == pc = "registered" /\ ScenarioOne /\ failed_builds = <<>>

Processed ==
    IF pc = "ping_tools" THEN 0
    ELSE IF pc = "loop" THEN idx - 1
    ELSE Len(Dir(namespace))

\* The rule of the ordered list that a name falls under, first match winning
RuleOf(name) ==
    CASE name[1] = "_" -> 1
      [] name[1] # "_" /\ name \in SKIP_FUNCTIONS -> 2
      [] name[1] # "_" /\ name \notin SKIP_FUNCTIONS
            /\ name \in CUSTOM_IMPLEMENTATIONS -> 3
      [] name[1] # "_" /\ name \notin SKIP_FUNCTIONS
            /\ name \notin CUSTOM_IMPLEMENTATIONS
            /\ namespace[name] \in {"class", "constant"} -> 4
      [] OTHER -> 5

\* C24: the loop treats every name by the first matching rule of private prefix,
\* denylist, override table, not-callable-or-class, accepted: only an accepted
\* name is built, a class or non-callable is never registered, and the value of
\* a name that an earlier rule took is never retrieved.
C24_FirstRuleWins ==
    \A k \in 1 .. Processed :
        LET name == Dir(namespace)[k]
        IN  /\ InSeq(name, built) <=> RuleOf(name) = 5
            /\ InSeq(name, retrieved) <=> RuleOf(name) \in {4, 5}
            /\ namespace[name] \in {"class", "constant"}
                   => ~GenericallyRegistered(name)
            /\ GenericallyRegistered(name) => RuleOf(name) = 5

\* The loop went through a class, a private function and a class named like an
\* override: only the first one's value was retrieved and nothing was built.
C24_Witness ==
    /\ pc = "registered"
    /\ namespace = (<<"alpha">> :> "class") @@ (<<"_", "private">> :> "function")
                       @@ (<<"cmd">> :> "class")
    /\ retrieved = << <<"alpha">> >>
    /\ built = <<>>
    /\ skipped_count = 1

\* The names of the override table that the host namespace holds
WithheldNames == DOMAIN namespace \cap CUSTOM_IMPLEMENTATIONS

\* C29: after registration, every name of the override table that the host
\* namespace holds has an entry openc3_<name> in the registry.
C29_WithheldNamesExposed ==
    pc = "registered" =>
        \A name \in WithheldNames : ExposedName(name) \in RegistryNames(registry)

\* The statement of C29 for the names that have a hand-written tool.
HandwrittenNamesExposed ==
    pc = "registered" =>
        \A name \in WithheldNames \cap {<<"cmd">>, <<"tlm">>, <<"check">>} :
            ExposedName(name) \in RegistryNames(registry)

----------------------------------------------------------------------------
(* Adapters: what one invocation of a tool function does.                  *)
(* behav is what the host function does if it is invoked.  The result is   *)
(* the text the tool returns, the host invocations it made, and whether an *)
(* exception left the tool function.                                       *)

Returns(val) == [k |-> "return", v |-> val]
Raises(msg) == [k |-> "raise", v |-> msg]      \* raise SomeError(msg); str(e) = msg

Invocation(fn, args, kwargs) == [fn |-> fn, args |-> args, kwargs |-> kwargs]

AdapterResult(text, backend) ==
    [text |-> text, backend |-> backend, propagated |-> FALSE]

\* `isinstance(value, str) and value.startswith('{') or value.startswith('[')`:
\* "decode", "keep", or "raise" when value has no startswith attribute
CoerceTest(value) ==
    IF IsStr(value) /\ StartsWith(value.v, "{") THEN "decode"
    ELSE IF ~IsStr(value) THEN "raise"
    ELSE IF StartsWith(value.v, "[") THEN "decode"
    ELSE "keep"

AttributeError(value) ==
    <<"'", TypeName(value), "' object has no attribute 'startswith'">>

\* for key, value in kwargs.items(): ... kwargs[key] = json.loads(value)
RECURSIVE CoerceFrom(_, _)
CoerceFrom(kwargs, i) ==
    IF i > Len(kwargs) THEN [raised |-> FALSE, kwargs |-> kwargs, error |-> <<>>]
    ELSE LET key == kwargs[i][1]
             value == kwargs[i][2]
             test == CoerceTest(value)
         IN  IF test = "raise"
             THEN [raised |-> TRUE, kwargs |-> kwargs, error |-> AttributeError(value)]
             ELSE IF test = "decode"
             THEN LET r == JsonLoads(value.v)
                  IN  IF r.ok
                      THEN CoerceFrom([kwargs EXCEPT ![i] = <<key, r.val>>], i + 1)
                      ELSE CoerceFrom(kwargs, i + 1)
             ELSE CoerceFrom(kwargs, i + 1)

CoerceArgs(kwargs) == CoerceFrom(kwargs, 1)

\* The if / elif chain that turns the host function's result into text
NormalizeResult(func_name, result) ==
    CASE result.k = "none" -> DumpOk(<<"Successfully executed ">> \o func_name)
      [] result.k \in {"str", "int", "bool"} -> DumpOk(PyToStr(result))
      [] result.k \in {"list", "dict"} -> JsonDumps(result)
      [] OTHER -> DumpOk(PyToStr(result))

ErrorExecuting(func_name, msg) ==
    <<"Error", " executing ">> \o func_name \o <<": ">> \o msg

\* tool_wrapper whose except clause drops the exception's message
ToolWrapperDropsMessage(func_name, kwargs, behav) ==
    LET c == CoerceArgs(kwargs)
        inv == Invocation(func_name, <<>>, c.kwargs)
    IN  IF c.raised THEN AdapterResult(ErrorExecuting(func_name, <<>>), <<>>)
        ELSE IF behav.k = "raise"
        THEN AdapterResult(ErrorExecuting(func_name, <<>>), <<inv>>)
        ELSE LET n == NormalizeResult(func_name, behav.v)
             IN  IF n.ok THEN AdapterResult(n.text, <<inv>>)
                 ELSE AdapterResult(ErrorExecuting(func_name, <<>>), <<inv>>)

\* tool_wrapper that calls the host function again when it raised
ToolWrapperRetries(func_name, kwargs, behav) ==
    LET c == CoerceArgs(kwargs)
        inv == Invocation(func_name, <<>>, c.kwargs)
    IN  IF c.raised THEN AdapterResult(ErrorExecuting(func_name, c.error), <<>>)
        ELSE IF behav.k = "raise"
        THEN AdapterResult(ErrorExecuting(func_name, behav.v), <<inv, inv>>)
        ELSE LET n == NormalizeResult(func_name, behav.v)
             IN  IF n.ok THEN AdapterResult(n.text, <<inv>>)
                 ELSE AdapterResult(ErrorExecuting(func_name, n.text), <<inv>>)

\* create_openc3_tool(func_name, func_obj).tool_wrapper(**kwargs)
ToolWrapper(func_name, kwargs, behav) ==
    LET c == CoerceArgs(kwargs)
        inv == Invocation(func_name, <<>>, c.kwargs)
    IN  IF c.raised THEN AdapterResult(ErrorExecuting(func_name, c.error), <<>>)
        ELSE IF behav.k = "raise"
        THEN AdapterResult(ErrorExecuting(func_name, behav.v), <<inv>>)
        ELSE LET n == NormalizeResult(func_name, behav.v)
             IN  IF n.ok THEN AdapterResult(n.text, <<inv>>)
                 ELSE AdapterResult(ErrorExecuting(func_name, n.text), <<inv>>)

MustProvide ==
    <<"Error", ": Must provide either command_string or target_name + command_name">>

\* openc3_cmd that looks at target_name and command_name before command_string
Openc3CmdTargetFirst(target_name, command_name, command_params, command_string, kwargs, behav) ==
    LET args == IF Truthy(target_name) /\ Truthy(command_name)
                THEN IF Truthy(command_params)
                     THEN <<target_name, command_name, command_params>>
                     ELSE <<target_name, command_name>>
                ELSE IF Truthy(command_string) THEN <<command_string>>
                ELSE <<>>
        inv == Invocation(<<"cmd">>, args, kwargs)
    IN  IF args = <<>> THEN AdapterResult(MustProvide, <<>>)
        ELSE IF behav.k = "raise"
        THEN AdapterResult(<<"Error", " sending command: ">> \o behav.v, <<inv>>)
        ELSE AdapterResult(<<"Command sent successfully: ">> \o PyToStr(behav.v), <<inv>>)

\* openc3_cmd(target_name, command_name, command_params, command_string, **kwargs)
Openc3Cmd(target_name, command_name, command_params, command_string, kwargs, behav) ==
    LET args == IF Truthy(command_string) THEN <<command_string>>
                ELSE IF Truthy(target_name) /\ Truthy(command_name)
                THEN IF Truthy(command_params)
                     THEN <<target_name, command_name, command_params>>
                     ELSE <<target_name, command_name>>
                ELSE <<>>
        inv == Invocation(<<"cmd">>, args, kwargs)
    IN  IF args = <<>> THEN AdapterResult(MustProvide, <<>>)
        ELSE IF behav.k = "raise"
        THEN AdapterResult(<<"Error", " sending command: ">> \o behav.v, <<inv>>)
        ELSE AdapterResult(<<"Command sent successfully: ">> \o PyToStr(behav.v), <<inv>>)

\* openc3_tlm(target_name, packet_name, item_name, **kwargs)
Openc3Tlm(target_name, packet_name, item_name, kwargs, behav) ==
    LET inv == Invocation(<<"tlm">>, <<target_name, packet_name, item_name>>, kwargs)
    IN  IF behav.k = "raise"
        THEN AdapterResult(<<"Error", " getting telemetry: ">> \o behav.v, <<inv>>)
        ELSE AdapterResult(PyToStr(item_name) \o <<": ">> \o PyToStr(behav.v), <<inv>>)

\* openc3_check(target_name, packet_name, item_name, comparison, value, **kwargs)
Openc3Check(target_name, packet_name, item_name, comparison, value, kwargs, behav) ==
    LET inv == Invocation(<<"check">>,
                          <<target_name, packet_name, item_name, comparison, value>>,
                          kwargs)
    IN  IF behav.k = "raise"
        THEN AdapterResult(<<"Check failed: ">> \o behav.v, <<inv>>)
        ELSE AdapterResult(<<"Check passed: ">> \o PyToStr(item_name) \o <<" ">>
                           \o PyToStr(comparison) \o <<" ">> \o PyToStr(value), <<inv>>)

\* datetime.now().isoformat(): some text the caller does not control
Timestamp == <<"<timestamp>">>

\* cosmos_cmd that sends the command with no parameters when they do not parse
CosmosCmdSendsAnyway(target_name, command_name, parameters, timeout, log_message, validate, scope, behav) ==
    LET parsed == IF Truthy(parameters) THEN JsonLoads(parameters.v)
                  ELSE [ok |-> TRUE, val |-> PyDict(<<>>)]
        params == IF parsed.ok THEN parsed.val ELSE PyDict(<<>>)
        kwargs == (IF timeout # PyNone THEN <<<<<<"timeout">>, timeout>>>> ELSE <<>>)
                  \o (IF Truthy(log_message)
                      THEN <<<<<<"log_message">>, log_message>>>> ELSE <<>>)
                  \o <<<<<<"validate">>, validate>>, <<<<"scope">>, scope>>>>
        inv == Invocation(<<"cmd">>, <<target_name, command_name, params>>, kwargs)
    IN  IF behav.k = "raise"
        THEN AdapterResult(<<"Error", " sending command: ">> \o behav.v, <<inv>>)
        ELSE IF ~parsed.ok
        THEN AdapterResult(<<"Error", ": Invalid JSON", " parameters: ">> \o parameters.v, <<inv>>)
        ELSE AdapterResult(<<"Command sent successfully at ">> \o Timestamp
                           \o <<"\nTarget: ">> \o PyToStr(target_name)
                           \o <<"\nCommand: ">> \o PyToStr(command_name)
                           \o <<"\nParameters: ">> \o PyToStr(params)
                           \o <<"\nResult: ">> \o PyToStr(behav.v), <<inv>>)

\* cosmos_cmd(target_name, command_name, parameters, timeout, log_message,
\*            validate, scope) of server_dynamic_v2.py
CosmosCmd(target_name, command_name, parameters, timeout, log_message, validate, scope, behav) ==
    LET parsed == IF Truthy(parameters) THEN JsonLoads(parameters.v)
                  ELSE [ok |-> TRUE, val |-> PyDict(<<>>)]
        params == parsed.val
        kwargs == (IF timeout # PyNone THEN <<<<<<"timeout">>, timeout>>>> ELSE <<>>)
                  \o (IF Truthy(log_message)
                      THEN <<<<<<"log_message">>, log_message>>>> ELSE <<>>)
                  \o <<<<<<"validate">>, validate>>, <<<<"scope">>, scope>>>>
        inv == Invocation(<<"cmd">>, <<target_name, command_name, params>>, kwargs)
    IN  IF ~parsed.ok
        THEN AdapterResult(<<"Error", ": Invalid JSON", " parameters: ">> \o parameters.v, <<>>)
        ELSE IF behav.k = "raise"
        THEN AdapterResult(<<"Error", " sending command: ">> \o behav.v, <<inv>>)
        ELSE AdapterResult(<<"Command sent successfully at ">> \o Timestamp
                           \o <<"\nTarget: ">> \o PyToStr(target_name)
                           \o <<"\nCommand: ">> \o PyToStr(command_name)
                           \o <<"\nParameters: ">> \o PyToStr(params)
                           \o <<"\nResult: ">> \o PyToStr(behav.v), <<inv>>)

\* An optional parameter the caller did not pass, and its binding to the default
NotGiven == [k |-> "absent", v |-> 0]
ArgOr(val, default) == IF val = NotGiven THEN default ELSE val

DefaultScope == PyStr(<<"DEFAULT">>)

\* cosmos_tlm(target_name, packet_name, item_name, value_type, scope)
CosmosTlm(target_name, packet_name, item_name, value_type, scope, behav) ==
    LET kwargs == << << <<"type">>, value_type >>, << <<"scope">>, scope >> >>
        inv == Invocation(<<"tlm">>, <<target_name, packet_name, item_name>>, kwargs)
    IN  IF behav.k = "raise"
        THEN AdapterResult(<<"Error", " getting telemetry: ">> \o behav.v, <<inv>>)
        ELSE AdapterResult(PyToStr(target_name) \o <<" ">> \o PyToStr(packet_name)
                           \o <<" ">> \o PyToStr(item_name) \o <<": ">>
                           \o PyToStr(behav.v), <<inv>>)

\* cosmos_cmd_string that forwards timeout even when it is None
CosmosCmdStringForwardsNone(command_string, timeout, log_message, validate, scope, behav) ==
    LET kwargs == <<<<<<"timeout">>, timeout>>>>
                  \o (IF Truthy(log_message)
                      THEN <<<<<<"log_message">>, log_message>>>> ELSE <<>>)
                  \o <<<<<<"validate">>, validate>>, <<<<"scope">>, scope>>>>
        inv == Invocation(<<"cmd">>, <<command_string>>, kwargs)
    IN  IF behav.k = "raise"
        THEN AdapterResult(<<"Error", " sending command: ">> \o behav.v, <<inv>>)
        ELSE AdapterResult(<<"Command sent successfully at ">> \o Timestamp
                           \o <<"\nCommand: ">> \o PyToStr(command_string)
                           \o <<"\nResult: ">> \o PyToStr(behav.v), <<inv>>)

\* cosmos_cmd_string(command_string, timeout, log_message, validate, scope)
CosmosCmdString(command_string, timeout, log_message, validate, scope, behav) ==
    LET kwargs == (IF timeout # PyNone THEN <<<<<<"timeout">>, timeout>>>> ELSE <<>>)
                  \o (IF Truthy(log_message)
                      THEN <<<<<<"log_message">>, log_message>>>> ELSE <<>>)
                  \o <<<<<<"validate">>, validate>>, <<<<"scope">>, scope>>>>
        inv == Invocation(<<"cmd">>, <<command_string>>, kwargs)
    IN  IF behav.k = "raise"
        THEN AdapterResult(<<"Error", " sending command: ">> \o behav.v, <<inv>>)
        ELSE AdapterResult(<<"Command sent successfully at ">> \o Timestamp
                           \o <<"\nCommand: ">> \o PyToStr(command_string)
                           \o <<"\nResult: ">> \o PyToStr(behav.v), <<inv>>)

\* A float: (-1)^neg * num * 10^exp, num not a multiple of ten unless it is 0
PyFloat(neg, num, exp) == [k |-> "float", neg |-> neg, num |-> num, exp |-> exp]

RECURSIVE NormalFloat(_, _, _)
NormalFloat(neg, num, exp) ==
    IF num = 0 THEN PyFloat(neg, 0, 0)
    ELSE IF num % 10 = 0 THEN NormalFloat(neg, num \div 10, exp + 1)
    ELSE PyFloat(neg, num, exp)

\* s.strip(), as int() and float() apply it to their argument
RECURSIVE StripRight(_)
StripRight(s) ==
    IF s # <<>> /\ s[Len(s)] \in Whitespace THEN StripRight(SubSeq(s, 1, Len(s) - 1))
    ELSE s
Strip(s) == LET i == SkipWs(s, 1) IN StripRight(SubSeq(s, i, Len(s)))

HasSign(s) == s # <<>> /\ s[1] \in {"+", "-"}
Unsigned(s) == IF HasSign(s) THEN Tail(s) ELSE s
IsNegative(s) == s # <<>> /\ s[1] = "-"
AllDigits(s) == \A i \in 1 .. Len(s) : s[i] \in DigitSet
DigitsValue(s) == ParseDigits(s, 1, 0).val.v

\* int(s): ok and the value, or ValueError
ParseInt(s) ==
    LET body == Unsigned(Strip(s))
    IN  IF body # <<>> /\ AllDigits(body)
        THEN [ok |-> TRUE, neg |-> IsNegative(Strip(s)) /\ DigitsValue(body) # 0,
              num |-> DigitsValue(body)]
        ELSE [ok |-> FALSE, neg |-> FALSE, num |-> 0]

\* float(s) for decimal literals: [sign] digits [. digits] [e [sign] digits]
ParseFloat(s) ==
    LET t == Unsigned(Strip(s))
        es == {i \in 1 .. Len(t) : t[i] \in {"e", "E"}}
        epos == IF es = {} THEN Len(t) + 1 ELSE CHOOSE i \in es : \A j \in es : i <= j
        mant == SubSeq(t, 1, epos - 1)
        expo == SubSeq(t, epos + 1, Len(t))
        dots == {i \in 1 .. Len(mant) : mant[i] = "."}
        dpos == IF dots = {} THEN Len(mant) + 1 ELSE CHOOSE i \in dots : TRUE
        whole == SubSeq(mant, 1, dpos - 1)
        frac == SubSeq(mant, dpos + 1, Len(mant))
        mantOk == /\ Cardinality(dots) <= 1
                  /\ AllDigits(whole) /\ AllDigits(frac)
                  /\ whole \o frac # <<>>
        expoOk == es = {} \/ (Unsigned(expo) # <<>> /\ AllDigits(Unsigned(expo)))
        e10 == IF es = {} THEN 0
               ELSE IF IsNegative(expo) THEN 0 - DigitsValue(Unsigned(expo))
               ELSE DigitsValue(Unsigned(expo))
    IN  IF mantOk /\ expoOk
        THEN [ok |-> TRUE,
              val |-> NormalFloat(IsNegative(Strip(s)), DigitsValue(whole \o frac),
                                  e10 - Len(frac))]
        ELSE [ok |-> FALSE, val |-> PyNone]

RECURSIVE Zeros(_)
Zeros(n) == IF n <= 0 THEN <<>> ELSE <<"0">> \o Zeros(n - 1)

\* str(x) of a float in the range that Python prints without an exponent
FloatToText(f) ==
    LET digits == IntToText(f.num)
        padded == Zeros(1 - f.exp - Len(digits)) \o digits
        cut == Len(padded) + f.exp
    IN  (IF f.neg THEN <<"-">> ELSE <<>>)
        \o (IF f.exp >= 0 THEN digits \o Zeros(f.exp) \o <<".", "0">>
            ELSE SubSeq(padded, 1, cut) \o <<".">> \o SubSeq(padded, cut + 1, Len(padded)))

\* The conversion tried as float first, whatever the text holds
ConvertExpectedFloatFirst(expected_value) ==
    IF ParseFloat(expected_value.v).ok THEN ParseFloat(expected_value.v).val
    ELSE IF ParseInt(expected_value.v).ok
         THEN [k |-> "int", neg |-> ParseInt(expected_value.v).neg,
               v |-> ParseInt(expected_value.v).num]
         ELSE expected_value

\* The conversion at the head of cosmos_check: float if the text has a '.',
\* int otherwise, and the text itself when the conversion raises ValueError
ConvertExpected(expected_value) ==
    IF \E i \in 1 .. Len(expected_value.v) : expected_value.v[i] = "."
    THEN IF ParseFloat(expected_value.v).ok THEN ParseFloat(expected_value.v).val
         ELSE expected_value
    ELSE IF ParseInt(expected_value.v).ok
         THEN [k |-> "int", neg |-> ParseInt(expected_value.v).neg,
               v |-> ParseInt(expected_value.v).num]
         ELSE expected_value

\* f"{expected_value}" after the conversion
ExpectedToText(val) ==
    CASE val.k = "float" -> FloatToText(val)
      [] val.k = "int" -> (IF val.neg THEN <<"-">> ELSE <<>>) \o IntToText(val.v)
      [] OTHER -> val.v

\* cosmos_check(target_name, packet_name, item_name, comparison, expected_value,
\*              timeout, scope)
CosmosCheck(target_name, packet_name, item_name, comparison, expected_value, timeout, scope, behav) ==
    LET converted == ConvertExpected(expected_value)
        inv == Invocation(<<"check">>,
                          <<target_name, packet_name, item_name, comparison, converted>>,
                          << << <<"timeout">>, timeout >>, << <<"scope">>, scope >> >>)
    IN  IF behav.k = "raise"
        THEN AdapterResult(<<"Check failed: ">> \o behav.v, <<inv>>)
        ELSE AdapterResult(<<"Check passed: ">> \o PyToStr(target_name) \o <<" ">>
                           \o PyToStr(packet_name) \o <<" ">> \o PyToStr(item_name)
                           \o <<" ">> \o PyToStr(comparison) \o <<" ">>
                           \o ExpectedToText(converted), <<inv>>)

\* cosmos_get_overall_limits_state(ignored_items, scope)
CosmosGetOverallLimitsState(ignored_items, scope, behav) ==
    LET parsed == IF Truthy(ignored_items) THEN JsonLoads(ignored_items.v)
                  ELSE [ok |-> TRUE, val |-> PyList(<<>>)]
        ignored == parsed.val
        inv == Invocation(<<"get_overall_limits_state">>, <<ignored>>,
                          << << <<"scope">>, scope >> >>)
    IN  IF ~parsed.ok
        THEN AdapterResult(<<"Error", ": Invalid JSON", " for ignored_items: ">>
                           \o ignored_items.v, <<>>)
        ELSE IF behav.k = "raise"
        THEN AdapterResult(<<"Error", " getting overall limits state: ">> \o behav.v,
                           <<inv>>)
        ELSE AdapterResult(<<"Overall limits state: ">> \o PyToStr(behav.v), <<inv>>)

----------------------------------------------------------------------------
(* Adapter calls on bounded inputs *)

Alphabet == {"{", "}", "[", "]", "1", "a"}

DictLiteral == <<"{", "\"", "A", "\"", ":", " ", "1", "}">>      \* {"A": 1}
ListLiteral == <<"[", "1", ",", " ", "2", "]">>                   \* [1, 2]
BrokenLiteral == <<"{", "\"", "A", "\"", ":", " ", "1">>          \* {"A": 1
Hello == <<"hello">>

LongerStrings == {DictLiteral, ListLiteral, BrokenLiteral, Hello}

ArgStrings == SeqsUpTo(Alphabet, MaxStrLen) \cup LongerStrings

DictA1 == PyDict(<< << <<"A">>, PyInt(1) >> >>)

NonStringValues == {PyNone, PyInt(5), PyBool(TRUE), PyList(<<PyInt(1)>>), DictA1}

FirstArgValues == {PyStr(s) : s \in ArgStrings} \cup NonStringValues
OtherArgValues == {PyStr(DictLiteral), PyStr(Hello), PyStr(<<"[", "1">>), PyInt(5), PyNone}

ArgKeys == << <<"a">>, <<"b">>, <<"c">>, <<"d">> >>

RECURSIVE KwargsOfLen(_)
KwargsOfLen(n) ==
    IF n = 0 THEN {<<>>}
    ELSE IF n = 1 THEN {<< <<ArgKeys[1], val>> >> : val \in FirstArgValues}
    ELSE {Append(kw, <<ArgKeys[n], val>>) : kw \in KwargsOfLen(n - 1),
                                            val \in OtherArgValues}

KwargsSet == UNION {KwargsOfLen(n) : n \in 0 .. MaxArgs}

\* {"A": [12, true, null, "x"], "B": {}}
NestedDict ==
    PyDict(<< << <<"A">>, PyList(<<PyInt(12), PyBool(TRUE), PyNone, PyStr(<<"x">>)>>) >>,
              << <<"B">>, PyDict(<<>>) >> >>)

ResultValues ==
    {PyNone, PyStr(<<"ok">>), PyInt(5), PyBool(TRUE),
     PyList(<<PyInt(1), PyInt(2)>>), DictA1, PyObject("Packet"),
     PyList(<<PyObject("Packet")>>),
     PyList(<<>>), PyList(<<DictA1, PyList(<<PyInt(0)>>)>>), NestedDict}

Messages == {<<"bad input">>, <<"CheckError: ", "1", " != ", "2">>}

Behaviours == {Returns(val) : val \in ResultValues} \cup {Raises(msg) : msg \in Messages}

GenericNames == {<<"alpha">>}

Scopes == {NotGiven, PyStr(<<"DEFAULT">>), PyStr(<<"OTHER">>)}

OptionalText(texts) == {PyNone} \cup {PyStr(s) : s \in texts}

GenericCalls ==
    [tool : {"generic"}, func_name : GenericNames, kwargs : KwargsSet,
     behav : Behaviours]

Openc3CmdCalls ==
    [tool : {"openc3_cmd"},
     target_name : OptionalText({<<>>, <<"INST">>}),
     command_name : OptionalText({<<>>, <<"ABORT">>}),
     command_params : {PyNone, PyDict(<<>>), DictA1},
     command_string : OptionalText({<<>>, <<"INST ABORT">>}),
     kwargs : {<<>>, << << <<"timeout">>, PyInt(5) >> >>},
     behav : Behaviours]

Openc3TlmCalls ==
    [tool : {"openc3_tlm"},
     target_name : {PyStr(<<"INST">>)},
     packet_name : {PyStr(<<"HEALTH_STATUS">>)},
     item_name : {PyStr(<<"TEMP1">>), PyStr(<<"TEMP2">>)},
     kwargs : {<<>>, << << <<"type">>, PyStr(<<"RAW">>) >> >>},
     behav : Behaviours]

Openc3CheckCalls ==
    [tool : {"openc3_check"},
     target_name : {PyStr(<<"INST">>)},
     packet_name : {PyStr(<<"HEALTH_STATUS">>)},
     item_name : {PyStr(<<"TEMP1">>)},
     comparison : {PyStr(<<"==">>), PyStr(<<">">>)},
     value : {PyInt(5), PyStr(<<"ok">>)},
     kwargs : {<<>>},
     behav : Behaviours]

CosmosCmdCalls ==
    [tool : {"cosmos_cmd"},
     target_name : {PyStr(<<"INST">>)},
     command_name : {PyStr(<<"ABORT">>)},
     parameters : OptionalText({<<>>, DictLiteral, BrokenLiteral, <<"[", "1", "]">>}),
     timeout : {PyNone, PyInt(5)},
     log_message : OptionalText({<<>>, <<"note">>}),
     validate : {PyBool(TRUE), PyBool(FALSE)},
     scope : Scopes,
     behav : Behaviours]

CosmosCmdStringCalls ==
    [tool : {"cosmos_cmd_string"},
     command_string : {PyStr(<<"INST ABORT">>)},
     timeout : {NotGiven, PyNone, PyInt(5)},
     log_message : {NotGiven} \cup OptionalText({<<>>, <<"note">>}),
     validate : {NotGiven, PyBool(FALSE)},
     scope : Scopes,
     behav : Behaviours]

CosmosTlmCalls ==
    [tool : {"cosmos_tlm"},
     target_name : {PyStr(<<"INST">>)},
     packet_name : {PyStr(<<"HEALTH_STATUS">>)},
     item_name : {PyStr(<<"TEMP1">>), PyStr(<<"TEMP2">>)},
     value_type : {NotGiven, PyStr(<<"RAW">>)},
     scope : Scopes,
     behav : Behaviours]

\* The characters expected_value is made of
NumberChars == {"1", "5", "0", ".", "-", "e"}
ExpectedTexts ==
    SeqsUpTo(NumberChars, MaxNumLen)
        \cup {<<"+", "5">>, <<" ", "5", " ">>, <<"a", "b", "c">>, <<"5", "a">>,
              <<"1", ".", "5", "0">>, <<"1", "5", "0", "0">>, <<" ", ".", "5", "\n">>}

CosmosCheckCalls ==
    [tool : {"cosmos_check"},
     target_name : {PyStr(<<"INST">>)},
     packet_name : {PyStr(<<"HEALTH_STATUS">>)},
     item_name : {PyStr(<<"TEMP1">>)},
     comparison : {PyStr(<<">">>)},
     expected_value : {PyStr(t) : t \in ExpectedTexts},
     timeout : {NotGiven, PyInt(2)},
     scope : {NotGiven, PyStr(<<"OTHER">>)},
     behav : {Returns(PyNone)} \cup {Raises(msg) : msg \in Messages}]

LimitsStateCalls ==
    [tool : {"cosmos_get_overall_limits_state"},
     ignored_items : {NotGiven} \cup OptionalText({<<>>, ListLiteral, BrokenLiteral,
                                                   <<"[", "1">>}),
     scope : Scopes,
     behav : Behaviours]

Done(result) ==
    [done |-> TRUE, text |-> result.text, backend |-> result.backend,
     propagated |-> result.propagated]

InvokeGeneric ==
    /\ call.tool = "generic"
    /\ ~outcome.done
    /\ outcome' = Done(ToolWrapper(call.func_name, call.kwargs, call.behav))
    /\ UNCHANGED <<call, regVars, gwVars, exVars>>

InvokeOpenc3Cmd ==
    /\ call.tool = "openc3_cmd"
    /\ ~outcome.done
    /\ outcome' = Done(Openc3Cmd(call.target_name, call.command_name, call.command_params,
                                 call.command_string, call.kwargs, call.behav))
    /\ UNCHANGED <<call, regVars, gwVars, exVars>>

InvokeOpenc3Tlm ==
    /\ call.tool = "openc3_tlm"
    /\ ~outcome.done
    /\ outcome' = Done(Openc3Tlm(call.target_name, call.packet_name, call.item_name,
                                 call.kwargs, call.behav))
    /\ UNCHANGED <<call, regVars, gwVars, exVars>>

InvokeOpenc3Check ==
    /\ call.tool = "openc3_check"
    /\ ~outcome.done
    /\ outcome' = Done(Openc3Check(call.target_name, call.packet_name, call.item_name,
                                   call.comparison, call.value, call.kwargs, call.behav))
    /\ UNCHANGED <<call, regVars, gwVars, exVars>>

InvokeCosmosCmd ==
    /\ call.tool = "cosmos_cmd"
    /\ ~outcome.done
    /\ outcome' = Done(CosmosCmd(call.target_name, call.command_name, call.parameters,
                                 call.timeout, call.log_message, call.validate,
                                 ArgOr(call.scope, DefaultScope), call.behav))
    /\ UNCHANGED <<call, regVars, gwVars, exVars>>

InvokeCosmosTlm ==
    /\ call.tool = "cosmos_tlm"
    /\ ~outcome.done
    /\ outcome' = Done(CosmosTlm(call.target_name, call.packet_name, call.item_name,
                                 ArgOr(call.value_type, PyStr(<<"CONVERTED">>)),
                                 ArgOr(call.scope, DefaultScope), call.behav))
    /\ UNCHANGED <<call, regVars, gwVars, exVars>>

InvokeCosmosCmdString ==
    /\ call.tool = "cosmos_cmd_string"
    /\ ~outcome.done
    /\ outcome' = Done(CosmosCmdString(call.command_string,
                                       ArgOr(call.timeout, PyNone),
                                       ArgOr(call.log_message, PyNone),
                                       ArgOr(call.validate, PyBool(TRUE)),
                                       ArgOr(call.scope, DefaultScope), call.behav))
    /\ UNCHANGED <<call, regVars, gwVars, exVars>>

InvokeCosmosCheck ==
    /\ call.tool = "cosmos_check"
    /\ ~outcome.done
    /\ outcome' = Done(CosmosCheck(call.target_name, call.packet_name, call.item_name,
                                   call.comparison, call.expected_value,
                                   ArgOr(call.timeout, PyFloat(FALSE, 5, 0)),
                                   ArgOr(call.scope, DefaultScope), call.behav))
    /\ UNCHANGED <<call, regVars, gwVars, exVars>>

InvokeLimitsState ==
    /\ call.tool = "cosmos_get_overall_limits_state"
    /\ ~outcome.done
    /\ outcome' = Done(CosmosGetOverallLimitsState(ArgOr(call.ignored_items, PyNone),
                                                   ArgOr(call.scope, DefaultScope),
                                                   call.behav))
    /\ UNCHANGED <<call, regVars, gwVars, exVars>>

InitAdapter ==
    /\ call \in GenericCalls \cup Openc3CmdCalls \cup Openc3TlmCalls
                \cup Openc3CheckCalls \cup CosmosCmdCalls \cup CosmosTlmCalls
                \cup LimitsStateCalls \cup CosmosCmdStringCalls \cup CosmosCheckCalls
    /\ outcome = NoOutcome
    /\ namespace = <<>>
    /\ pc = "adapter_call"
    /\ idx = 0
    /\ built = <<>>
    /\ registry = <<>>
    /\ registered_count = 0
    /\ skipped_count = 0
    /\ startup_error = NoError
    /\ failed_builds = <<>>
    /\ retrieved = <<>>
    /\ GatewayIdle
    /\ ExtrasIdle

NextAdapter ==
    \/ InvokeGeneric
    \/ InvokeOpenc3Cmd
    \/ InvokeOpenc3Tlm
    \/ InvokeOpenc3Check
    \/ InvokeCosmosCmd
    \/ InvokeCosmosTlm
    \/ InvokeLimitsState
    \/ InvokeCosmosCmdString
    \/ InvokeCosmosCheck

SpecAdapter == InitAdapter /\ [][NextAdapter]_vars

----------------------------------------------------------------------------
(* Adapter claims *)

GenericCallDone == outcome.done /\ call.tool = "generic"

HostInvoked == Len(outcome.backend) > 0

BeginsWithBraceOrBracket(val) ==
    IsStr(val) /\ (StartsWith(val.v, "{") \/ StartsWith(val.v, "["))

\* What a string argument is to become: its decoded structure when it begins
\* with "{" or "[" and is a valid literal, itself otherwise.
DecodedOrSame(val) ==
    IF BeginsWithBraceOrBracket(val) /\ JsonLoads(val.v).ok
    THEN JsonLoads(val.v).val
    ELSE val

StringArgReachesHost(i) ==
    /\ Len(outcome.backend) = 1
    /\ Len(outcome.backend[1].kwargs) = Len(call.kwargs)
    /\ outcome.backend[1].kwargs[i] = <<call.kwargs[i][1], DecodedOrSame(call.kwargs[i][2])>>

\* C4: in a generic adapter call every string argument reaches the host
\* function: decoded when it begins with "{" or "[" and is a valid literal, as
\* the original string otherwise.
C4_StringArgsCoerced ==
    GenericCallDone =>
        \A i \in 1 .. Len(call.kwargs) :
            IsStr(call.kwargs[i][2]) => StringArgReachesHost(i)

\* The same statement for the calls all of whose arguments are strings.
StringOnlyCallsCoerced ==
    (GenericCallDone /\ \A i \in 1 .. Len(call.kwargs) : IsStr(call.kwargs[i][2])) =>
        \A i \in 1 .. Len(call.kwargs) : StringArgReachesHost(i)

\* C5: coercion never raises: in a generic adapter call the host function is
\* invoked, and every argument that is not a string reaches it unmodified.
C5_NonStringsPassThrough ==
    GenericCallDone =>
        /\ Len(outcome.backend) = 1
        /\ \A i \in 1 .. Len(call.kwargs) :
               ~IsStr(call.kwargs[i][2]) =>
                   outcome.backend[1].kwargs[i] = call.kwargs[i]

\* C6: when the host function or backend call behind an adapter raises, no
\* exception leaves the adapter and the returned text holds the message.
C6_RaiseBecomesText ==
    (outcome.done /\ HostInvoked /\ call.behav.k = "raise") =>
        /\ ~outcome.propagated
        /\ Contains(outcome.text, call.behav.v)

\* A generic adapter invoked the host function, which raised "bad input".
C6_Witness ==
    /\ GenericCallDone
    /\ HostInvoked
    /\ call.behav = Raises(<<"bad input">>)
    /\ outcome.text = <<"Error", " executing ", "alpha", ": ", "bad input">>

\* A generic adapter call whose host function returned a value
GenericReturned == GenericCallDone /\ HostInvoked /\ call.behav.k = "return"

IsContainer(val) == val.k \in {"list", "dict"}

\* C16: the text a generic adapter returns for the host function's value:
\* None gives "Successfully executed <name>", a string, number or boolean its
\* str(), a list or mapping its indented JSON encoding, anything else its str().
C16_ResultNormalized ==
    GenericReturned =>
        LET v == call.behav.v
        IN  CASE v.k = "none" ->
                    outcome.text = <<"Successfully executed ">> \o call.func_name
              [] v.k \in {"str", "int", "bool"} -> outcome.text = PyToStr(v)
              [] IsContainer(v) ->
                    JsonDumps(v).ok /\ outcome.text = JsonDumps(v).text
              [] OTHER -> outcome.text = PyToStr(v)

RECURSIVE Serializable(_)
Serializable(val) ==
    CASE val.k \in {"none", "int", "bool", "str"} -> TRUE
      [] val.k = "list" -> \A k \in 1 .. Len(val.v) : Serializable(val.v[k])
      [] val.k = "dict" -> \A k \in 1 .. Len(val.v) : Serializable(val.v[k][2])
      [] OTHER -> FALSE

\* The statement of C16 for the values json.dumps can encode.
SerializableNormalized ==
    (GenericReturned /\ (IsContainer(call.behav.v) => Serializable(call.behav.v)))
        => C16_ResultNormalized

Markup == {"{", "}", "[", "]", "\"", "\n"}

\* C17: the text returned for a list or mapping decodes back to that list or
\* mapping, and the text returned for None holds the name and no markup.
C17_RoundTrip ==
    GenericReturned =>
        LET v == call.behav.v
        IN  /\ IsContainer(v) =>
                   /\ JsonLoads(outcome.text).ok
                   /\ JsonLoads(outcome.text).val = v
            /\ (v.k = "none") =>
                   /\ Contains(outcome.text, call.func_name)
                   /\ \A k \in 1 .. Len(outcome.text) : outcome.text[k] \notin Markup

\* The statement of C17 for the values json.dumps can encode.
SerializableRoundTrip ==
    (GenericReturned /\ (IsContainer(call.behav.v) => Serializable(call.behav.v)))
        => C17_RoundTrip

\* The names a response text can name the called tool by: the exposed name
\* and the name of the host function behind it
ToolNames ==
    CASE call.tool = "generic" -> {ExposedName(call.func_name), call.func_name}
      [] call.tool = "openc3_cmd" -> {<<"openc3_cmd">>, <<"openc3_", "cmd">>, <<"cmd">>}
      [] call.tool = "openc3_tlm" -> {<<"openc3_tlm">>, <<"openc3_", "tlm">>, <<"tlm">>}
      [] call.tool = "openc3_check" ->
            {<<"openc3_check">>, <<"openc3_", "check">>, <<"check">>}
      [] call.tool = "cosmos_cmd" -> {<<"cosmos_cmd">>, <<"cmd">>}
      [] call.tool = "cosmos_cmd_string" -> {<<"cosmos_cmd_string">>, <<"cmd">>}
      [] call.tool = "cosmos_tlm" -> {<<"cosmos_tlm">>, <<"tlm">>}
      [] call.tool = "cosmos_check" -> {<<"cosmos_check">>, <<"check">>}
      [] call.tool = "cosmos_get_overall_limits_state" ->
            {<<"cosmos_get_overall_limits_state">>, <<"get_overall_limits_state">>}
      [] OTHER -> {}

\* C18: the text an adapter returns names the tool that was called, on the
\* success path and on the failure path.
C18_TextNamesTool ==
    outcome.done => \E name \in ToolNames : Contains(outcome.text, name)

\* The call failed: its input was refused before the host function was
\* invoked, the host function raised, or its result could not be encoded
CallFailed ==
    \/ ~HostInvoked
    \/ call.behav.k = "raise"
    \/ /\ call.tool = "generic"
       /\ IsContainer(call.behav.v)
       /\ ~Serializable(call.behav.v)

\* C19: the returned text begins with "Error" exactly when the call failed.
C19_ErrorMarker ==
    outcome.done => (CallFailed <=> StartsWith(outcome.text, "Error"))

\* The statement of C19 for every adapter but openc3_check and cosmos_check.
ErrorMarkerButCheck ==
    (outcome.done /\ call.tool \notin {"openc3_check", "cosmos_check"}) => C19_ErrorMarker

\* C20: one call makes its adapter invoke the host function at most once.
C20_InvokedAtMostOnce == outcome.done => Len(outcome.backend) <= 1

\* A generic call whose host function raised, and invoked it once.
C20_Witness ==
    /\ GenericCallDone
    /\ call.behav.k = "raise"
    /\ Len(outcome.backend) = 1
    /\ StartsWith(outcome.text, "Error")

\* C22: the text cosmos_tlm returns holds the target name and the item name it
\* was called with, whether the telemetry read returned or raised.
C22_TlmTextNamesItem ==
    (outcome.done /\ call.tool = "cosmos_tlm") =>
        /\ Contains(outcome.text, call.target_name.v)
        /\ Contains(outcome.text, call.item_name.v)

\* The statement of C22 for the reads that returned.
TlmTextNamesItemOnSuccess ==
    (outcome.done /\ call.tool = "cosmos_tlm" /\ call.behav.k = "return")
        => C22_TlmTextNamesItem

BeginsErrorExecuting(text) == IsPrefix(<<"Error", " executing ">>, text)

\* C23: when the host function behind a generic adapter returned, the response
\* is the success text of result normalization, and a text beginning
\* "Error executing" is returned only when the host function itself raised.
C23_ErrorOnlyWhenHostRaised ==
    GenericCallDone =>
        /\ (HostInvoked /\ call.behav.k = "return") =>
               /\ ~BeginsErrorExecuting(outcome.text)
               /\ NormalizeResult(call.func_name, call.behav.v).ok
               /\ outcome.text = NormalizeResult(call.func_name, call.behav.v).text
        /\ BeginsErrorExecuting(outcome.text) =>
               (HostInvoked /\ call.behav.k = "raise")

\* The statement of C23 for the calls whose arguments are all strings and whose
\* result json.dumps can encode.
ErrorOnlyWhenHostRaisedButBugs ==
    (/\ GenericCallDone
     /\ \A i \in 1 .. Len(call.kwargs) : IsStr(call.kwargs[i][2])
     /\ (call.behav.k = "return" /\ IsContainer(call.behav.v)) => Serializable(call.behav.v))
        => C23_ErrorOnlyWhenHostRaised

\* A parameter that was given and is not empty
NonEmpty(val) == val.k \in {"str", "dict", "list"} /\ Len(val.v) > 0

\* The positional arguments the backend command was sent with, if it was sent
SentArgs == IF HostInvoked THEN outcome.backend[1].args ELSE <<>>

\* C25: openc3_cmd sends the command string alone when it is non-empty;
\* otherwise, with non-empty target and command names, (target, command,
\* params) when params is non-empty and (target, command) when it is not;
\* otherwise it returns the "Must provide" text and sends nothing.
C25_InvocationShape ==
    (outcome.done /\ call.tool = "openc3_cmd") =>
        IF NonEmpty(call.command_string)
        THEN /\ HostInvoked
             /\ outcome.backend[1].fn = <<"cmd">>
             /\ SentArgs = <<call.command_string>>
        ELSE IF NonEmpty(call.target_name) /\ NonEmpty(call.command_name)
        THEN /\ HostInvoked
             /\ outcome.backend[1].fn = <<"cmd">>
             /\ SentArgs = IF NonEmpty(call.command_params)
                           THEN <<call.target_name, call.command_name, call.command_params>>
                           ELSE <<call.target_name, call.command_name>>
        ELSE /\ ~HostInvoked
             /\ outcome.text = <<"Error", ": Must provide either command_string or target_name + command_name">>

\* openc3_cmd was given a command string together with a target, a command
\* and parameters, and sent the string alone.
C25_Witness ==
    /\ outcome.done
    /\ call.tool = "openc3_cmd"
    /\ call.command_string = PyStr(<<"INST ABORT">>)
    /\ call.target_name = PyStr(<<"INST">>)
    /\ call.command_name = PyStr(<<"ABORT">>)
    /\ call.command_params = DictA1
    /\ SentArgs = <<PyStr(<<"INST ABORT">>)>>

\* The JSON text parameter of the call under test, None when it was not given
JsonArgument ==
    IF call.tool = "cosmos_cmd" THEN call.parameters
    ELSE ArgOr(call.ignored_items, PyNone)

\* C26: a non-empty parameters string of cosmos_cmd, or ignored_items string of
\* cosmos_get_overall_limits_state, that is not valid JSON gives an
\* "Error: Invalid JSON" text that quotes the string, and no backend call.
C26_InvalidJsonRejected ==
    (/\ outcome.done
     /\ call.tool \in {"cosmos_cmd", "cosmos_get_overall_limits_state"}
     /\ IsStr(JsonArgument)
     /\ JsonArgument.v # <<>>
     /\ ~JsonLoads(JsonArgument.v).ok)
        => /\ IsPrefix(<<"Error", ": Invalid JSON">>, outcome.text)
           /\ Contains(outcome.text, JsonArgument.v)
           /\ ~HostInvoked

\* cosmos_cmd was given the unterminated literal {"A": 1 and a backend that
\* would have raised: it answered with the literal and did not send.
C26_Witness ==
    /\ outcome.done
    /\ call.tool = "cosmos_cmd"
    /\ call.parameters = PyStr(BrokenLiteral)
    /\ call.behav.k = "raise"
    /\ outcome.text = <<"Error", ": Invalid JSON", " parameters: ">> \o BrokenLiteral
    /\ outcome.backend = <<>>

\* The values the backend call received under a keyword
KwargValues(key) ==
    LET kw == outcome.backend[1].kwargs
    IN  {kw[i][2] : i \in {j \in 1 .. Len(kw) : kw[j][1] = key}}

CosmosTools ==
    {"cosmos_cmd", "cosmos_cmd_string", "cosmos_tlm", "cosmos_check",
     "cosmos_get_overall_limits_state"}

\* C27: a cosmos_* tool forwards the caller's scope, "DEFAULT" when none was
\* given, to its backend call; cosmos_cmd and cosmos_cmd_string also forward
\* validate always, timeout only when it is not None and log_message only when
\* it is non-empty.
C27_ScopeForwarded ==
    (outcome.done /\ call.tool \in CosmosTools /\ HostInvoked) =>
        /\ KwargValues(<<"scope">>) =
               {IF call.scope = NotGiven THEN PyStr(<<"DEFAULT">>) ELSE call.scope}
        /\ call.tool \in {"cosmos_cmd", "cosmos_cmd_string"} =>
               /\ KwargValues(<<"validate">>) =
                      {IF call.validate = NotGiven THEN PyBool(TRUE) ELSE call.validate}
               /\ KwargValues(<<"timeout">>) =
                      (IF call.timeout \in {NotGiven, PyNone} THEN {} ELSE {call.timeout})
               /\ KwargValues(<<"log_message">>) =
                      (IF call.log_message \in {NotGiven, PyNone, PyStr(<<>>)}
                       THEN {} ELSE {call.log_message})

\* cosmos_cmd_string was called with timeout=None, an empty log message and no
\* scope: the backend received validate=True and scope="DEFAULT" and no more.
C27_Witness ==
    /\ outcome.done
    /\ call.tool = "cosmos_cmd_string"
    /\ call.scope = NotGiven
    /\ call.validate = NotGiven
    /\ call.timeout = PyNone
    /\ call.log_message = PyStr(<<>>)
    /\ Len(outcome.backend) = 1
    /\ outcome.backend[1].kwargs =
           << << <<"validate">>, PyBool(TRUE) >>, << <<"scope">>, PyStr(<<"DEFAULT">>) >> >>

\* C28: cosmos_check hands the backend a float when expected_value holds a '.'
\* and parses as a float, an int when it holds no '.' and parses as an int, and
\* the string itself otherwise; the text is "Check passed: ..." exactly when
\* the backend check returned and "Check failed: <message>" exactly when it raised.
C28_ExpectedValueConversion ==
    (outcome.done /\ call.tool = "cosmos_check") =>
        LET given == call.expected_value.v
            hasDot == \E i \in 1 .. Len(given) : given[i] = "."
            handed == outcome.backend[1].args[5]
        IN  /\ Len(outcome.backend) = 1
            /\ IF hasDot /\ ParseFloat(given).ok
               THEN handed.k = "float" /\ handed = ParseFloat(given).val
               ELSE IF ~hasDot /\ ParseInt(given).ok
               THEN /\ handed.k = "int"
                    /\ handed.v = ParseInt(given).num
                    /\ handed.neg = ParseInt(given).neg
               ELSE handed.k = "str" /\ handed.v = given
            /\ IF call.behav.k = "raise"
               THEN /\ outcome.text = <<"Check failed: ">> \o call.behav.v
                    /\ ~IsPrefix(<<"Check passed: ">>, outcome.text)
               ELSE /\ IsPrefix(<<"Check passed: ">>, outcome.text)
                    /\ ~IsPrefix(<<"Check failed: ">>, outcome.text)

\* cosmos_check was given "5." and the backend check, handed the float 5.0,
\* returned.
C28_Witness ==
    /\ outcome.done
    /\ call.tool = "cosmos_check"
    /\ call.expected_value = PyStr(<<"5", ".">>)
    /\ call.behav.k = "return"
    /\ outcome.backend[1].args[5] = PyFloat(FALSE, 5, 0)
    /\ outcome.text = <<"Check passed: ", "INST", " ", "HEALTH_STATUS", " ", "TEMP1",
                        " ", ">", " ", "5", ".", "0">>

----------------------------------------------------------------------------
(* The session gateway: handshake, list, call, close *)

\* ping(host)
Ping(host) ==
    AdapterResult(<<"Pong from ">> \o PyToStr(host) \o <<" at ">> \o Timestamp, <<>>)

\* kwargs.get(key, default) on an insertion-ordered sequence of pairs
GetArg(kwargs, key, default) ==
    IF \E i \in 1 .. Len(kwargs) : kwargs[i][1] = key
    THEN kwargs[CHOOSE i \in 1 .. Len(kwargs) : kwargs[i][1] = key][2]
    ELSE default

\* the pairs whose key is none of the declared parameters: they land in **kwargs
RECURSIVE RestArgs(_, _)
RestArgs(kwargs, declared) ==
    IF kwargs = <<>> THEN <<>>
    ELSE (IF Head(kwargs)[1] \in declared THEN <<>> ELSE <<Head(kwargs)>>)
         \o RestArgs(Tail(kwargs), declared)

Openc3CmdParams ==
    {<<"target_name">>, <<"command_name">>, <<"command_params">>, <<"command_string">>}

\* The registered tool function called with the request's arguments
InvokeTool(entry, arguments, behav) ==
    IF entry.origin = "generic"
    THEN ToolWrapper(BoundMember(entry), arguments, behav)
    ELSE CASE entry.name = <<"ping">> ->
                Ping(GetArg(arguments, <<"host">>, PyStr(<<"pong">>)))
           [] entry.name = <<"openc3_", "cmd">> ->
                Openc3Cmd(GetArg(arguments, <<"target_name">>, PyNone),
                          GetArg(arguments, <<"command_name">>, PyNone),
                          GetArg(arguments, <<"command_params">>, PyNone),
                          GetArg(arguments, <<"command_string">>, PyNone),
                          RestArgs(arguments, Openc3CmdParams), behav)

\* a gateway that only refuses closed sessions
ServableUnlessClosed(state) == state # "Closed"

\* list / call are valid only in an Initialized session
Servable(state) == state = "Initialized"

\* an error text that does not name the requested tool
UnknownToolTextNoName(name) == <<"Error", ": unknown tool">>

\* The text answering a call whose tool name is not registered
UnknownToolText(name) == <<"Error", ": unknown tool '">> \o name \o <<"'">>

\* The text answering a call whose adapter let an exception escape
AdapterFailedText(name, msg) ==
    <<"Error", " calling tool '">> \o name \o <<"': ">> \o msg

NotInitializedFault == <<"invalid request: session is not initialized">>

\* a gateway that numbers its responses itself
ResponseCidCounted(req) == Len(responses) + 1

\* The correlation id a response carries
ResponseCid(req) == req.cid

Response(req, kind, text, tools) ==
    [session |-> req.session, cid |-> ResponseCid(req), kind |-> kind, text |-> text,
     tools |-> tools]

Handled(req, dispatched, backend) ==
    [req |-> req, state |-> session[req.session], dispatched |-> dispatched,
     backend |-> backend]

\* What clients ask for
RequestShapes ==
    { [op |-> "call", name |-> <<"openc3_", "alpha">>,
       arguments |-> << << <<"a">>, PyStr(<<"[", "1", "]">>) >> >>],
      [op |-> "call", name |-> <<"ping">>,
       arguments |-> << << <<"host">>, PyStr(<<"test">>) >> >>],
      [op |-> "call", name |-> <<"nonexistent">>, arguments |-> <<>>],
      [op |-> "list", name |-> <<>>, arguments |-> <<>>] }

GatewayBehaviours == {Returns(PyNone), Returns(PyInt(5)), Raises(<<"bad input">>)}

\* mcp.run(...): the registered tools are served
Run ==
    /\ pc = "registered"
    /\ pc' = "serving"
    /\ UNCHANGED <<namespace, idx, built, registry, registered_count, skipped_count,
                   startup_error, failed_builds, retrieved>>
    /\ UNCHANGED gwVars
    /\ UNCHANGED <<adVars, exVars>>

\* session.initialize()
Handshake(s) ==
    /\ pc = "serving"
    /\ session[s] = "Uninitialized"
    /\ session' = [session EXCEPT ![s] = "Initialized"]
    /\ UNCHANGED <<sent, wire, responses, handled, nextCid>>
    /\ UNCHANGED regVars
    /\ UNCHANGED <<adVars, exVars>>

\* the client leaves the session
Close(s) ==
    /\ pc = "serving"
    /\ session[s] = "Initialized"
    /\ session' = [session EXCEPT ![s] = "Closed"]
    /\ UNCHANGED <<sent, wire, responses, handled, nextCid>>
    /\ UNCHANGED regVars
    /\ UNCHANGED <<adVars, exVars>>

\* a client sends a list or call request, in whatever state its session is
Send(s, shape) ==
    /\ pc = "serving"
    /\ Cardinality(sent) < MaxRequests
    /\ LET req == [session |-> s, cid |-> nextCid[s], op |-> shape.op,
                   name |-> shape.name, arguments |-> shape.arguments]
       IN  /\ sent' = sent \cup {req}
           /\ wire' = wire \cup {req}
    /\ nextCid' = [nextCid EXCEPT ![s] = @ + 1]
    /\ UNCHANGED <<session, responses, handled>>
    /\ UNCHANGED regVars
    /\ UNCHANGED <<adVars, exVars>>

Answer(req, response, how) ==
    /\ wire' = wire \ {req}
    /\ responses' = Append(responses, response)
    /\ handled' = Append(handled, how)
    /\ UNCHANGED <<session, sent, nextCid>>
    /\ UNCHANGED regVars
    /\ UNCHANGED <<adVars, exVars>>

\* a request outside an Initialized session is refused, no tool is looked up
RejectRequest(req) ==
    /\ pc = "serving"
    /\ req \in wire
    /\ ~Servable(session[req.session])
    /\ Answer(req, Response(req, "fault", NotInitializedFault, <<>>),
              Handled(req, FALSE, <<>>))

\* list
HandleList(req) ==
    /\ pc = "serving"
    /\ req \in wire
    /\ Servable(session[req.session])
    /\ req.op = "list"
    /\ Answer(req, Response(req, "tools", <<>>, ListTools(registry)),
              Handled(req, FALSE, <<>>))

\* a gateway that remembers a missed lookup as a registry entry
HandleCallUnknownCaching(req) ==
    /\ pc = "serving"
    /\ req \in wire
    /\ Servable(session[req.session])
    /\ req.op = "call"
    /\ Lookup(registry, req.name) = 0
    /\ wire' = wire \ {req}
    /\ responses' = Append(responses,
                           Response(req, "text", UnknownToolText(req.name), <<>>))
    /\ handled' = Append(handled, Handled(req, FALSE, <<>>))
    /\ registry' = Append(registry, HandwrittenEntry(req.name))
    /\ UNCHANGED <<session, sent, nextCid>>
    /\ UNCHANGED <<namespace, pc, idx, built, registered_count, skipped_count,
                   startup_error, failed_builds, retrieved>>
    /\ UNCHANGED <<adVars, exVars>>

\* call of a name that lookup does not find
HandleCallUnknown(req) ==
    /\ pc = "serving"
    /\ req \in wire
    /\ Servable(session[req.session])
    /\ req.op = "call"
    /\ Lookup(registry, req.name) = 0
    /\ Answer(req, Response(req, "text", UnknownToolText(req.name), <<>>),
              Handled(req, FALSE, <<>>))

\* a gateway that closes the session of a call whose adapter reported an error
HandleCallClosingOnError(req) ==
    /\ pc = "serving"
    /\ req \in wire
    /\ Servable(session[req.session])
    /\ req.op = "call"
    /\ Lookup(registry, req.name) # 0
    /\ \E behav \in GatewayBehaviours :
           LET result == InvokeTool(registry[Lookup(registry, req.name)],
                                    req.arguments, behav)
           IN  /\ wire' = wire \ {req}
               /\ responses' = Append(responses, Response(req, "text", result.text, <<>>))
               /\ handled' = Append(handled, Handled(req, TRUE, result.backend))
               /\ session' = IF StartsWith(result.text, "Error")
                             THEN [session EXCEPT ![req.session] = "Closed"]
                             ELSE session
    /\ UNCHANGED <<sent, nextCid>>
    /\ UNCHANGED regVars
    /\ UNCHANGED <<adVars, exVars>>

\* call of a registered tool: the adapter runs to completion and is answered
HandleCall(req) ==
    /\ pc = "serving"
    /\ req \in wire
    /\ Servable(session[req.session])
    /\ req.op = "call"
    /\ Lookup(registry, req.name) # 0
    /\ \E behav \in GatewayBehaviours :
           LET result == InvokeTool(registry[Lookup(registry, req.name)],
                                    req.arguments, behav)
               text == IF result.propagated
                       THEN AdapterFailedText(req.name, result.text)
                       ELSE result.text
           IN  Answer(req, Response(req, "text", text, <<>>),
                      Handled(req, TRUE, result.backend))

\* Host namespaces of the served runs
ServedNamespaces ==
    { ns \in Namespaces :
        /\ DOMAIN ns \in {{<<"alpha">>, <<"_", "private">>, <<"ask">>},
                          {<<"get_target_list">>}}
        /\ \A n \in DOMAIN ns : ns[n] = "function" }

Init == ModuleStart(ServedNamespaces)

Gateway ==
    \/ \E s \in Sessions : Handshake(s)
    \/ \E s \in Sessions : Close(s)
    \/ \E s \in Sessions, shape \in RequestShapes : Send(s, shape)
    \/ \E req \in wire : RejectRequest(req)
    \/ \E req \in wire : HandleList(req)
    \/ \E req \in wire : HandleCallUnknown(req)
    \/ \E req \in wire : HandleCall(req)

Next == NextReg \/ Run \/ Gateway

Spec == Init /\ [][Next]_vars

\* One turn of the gateway's loop: some request on the wire is handled
Serve == \E req \in wire :
            RejectRequest(req) \/ HandleList(req) \/ HandleCallUnknown(req) \/ HandleCall(req)

\* The same turn seen from the wire: a request leaves it.  Every request on
\* the wire has exactly one handler whose guard holds (HandlerReady), and only
\* handlers take requests off the wire (TakenIsServe), so Taken is enabled
\* exactly when Serve is and the Taken steps of Next are the Serve steps.
Taken == /\ pc = "serving"
         /\ \E req \in wire : wire' = wire \ {req}

HandlerReady ==
    \A req \in wire :
        \/ ~Servable(session[req.session])
        \/ Servable(session[req.session]) /\ req.op = "list"
        \/ Servable(session[req.session]) /\ req.op = "call"
              /\ Lookup(registry, req.name) = 0
        \/ Servable(session[req.session]) /\ req.op = "call"
              /\ Lookup(registry, req.name) # 0

TakenIsServe == [][Taken <=> Serve]_vars

\* The gateway's loop keeps running: a request on the wire is taken up
SpecLive == Spec /\ WF_wire(Taken)

----------------------------------------------------------------------------
(* Gateway claims *)

Answered == 1 .. Len(responses)

\* C7: a call in an Initialized session that names a tool missing from the
\* registry is answered with a text result holding "Error" and the requested
\* name, under the request's correlation id, and no adapter is invoked.
C7_UnknownToolIsTextError ==
    \A i \in Answered :
        (/\ handled[i].req.op = "call"
         /\ handled[i].state = "Initialized"
         /\ handled[i].req.name \notin RegistryNames(registry))
        => /\ responses[i].kind = "text"
           /\ Contains(responses[i].text, <<"Error">>)
           /\ Contains(responses[i].text, handled[i].req.name)
           /\ responses[i].session = handled[i].req.session
           /\ responses[i].cid = handled[i].req.cid
           /\ ~handled[i].dispatched
           /\ handled[i].backend = <<>>

\* A call of "nonexistent" was answered in an Initialized session.
C7_Witness ==
    \E i \in Answered :
        /\ handled[i].req.name = <<"nonexistent">>
        /\ handled[i].state = "Initialized"
        /\ responses[i].kind = "text"

AnswersTo(req) ==
    {i \in Answered : responses[i].session = req.session /\ responses[i].cid = req.cid}

ExactlyOneAnswer ==
    /\ \A req \in sent :
           IF req \in wire THEN AnswersTo(req) = {}
           ELSE /\ Cardinality(AnswersTo(req)) = 1
                /\ \A i \in AnswersTo(req) : handled[i].req = req
    /\ \A i \in Answered :
           \E req \in sent : req.session = responses[i].session /\ req.cid = responses[i].cid

LegalSessionSteps ==
    {<<"Uninitialized", "Initialized">>, <<"Initialized", "Closed">>}

\* C9: a session only steps Uninitialized -> Initialized -> Closed, and a
\* request is served (listed, looked up, dispatched) only if its session is
\* Initialized; otherwise it is refused and no adapter runs.
C9_SessionLifecycle ==
    /\ [][\A s \in Sessions :
             (session'[s] # session[s])
                 => (<<session[s], session'[s]>> \in LegalSessionSteps)]_vars
    /\ [](\A i \in Answered :
             IF handled[i].state = "Initialized"
             THEN responses[i].kind # "fault"
             ELSE /\ responses[i].kind = "fault"
                  /\ ~handled[i].dispatched
                  /\ handled[i].backend = <<>>)

\* One request was refused before the handshake and one after the close.
C9_Witness ==
    \E i, j \in Answered :
        /\ handled[i].state = "Uninitialized" /\ responses[i].kind = "fault"
        /\ handled[j].state = "Closed" /\ responses[j].kind = "fault"

\* C10: once registration is complete the registry never changes, whatever is
\* listed or called, and all list responses carry the same ordered names.
C10_RegistryFrozen ==
    /\ [][(pc \in {"registered", "serving"}) => (registry' = registry)]_vars
    /\ [](\A i, j \in Answered :
             (responses[i].kind = "tools" /\ responses[j].kind = "tools")
                 => responses[i].tools = responses[j].tools)

\* A failing call and a later list were both answered.
C10_Witness ==
    \E i, j \in Answered :
        /\ i < j
        /\ handled[i].req.name = <<"nonexistent">>
        /\ responses[i].kind = "text"
        /\ responses[j].kind = "tools"
        /\ responses[j].tools = ListTools(registry)
        /\ Len(responses[j].tools) > 2

\* The i-th handled request reached an adapter whose host function raised
HostRaised(i) ==
    /\ handled[i].dispatched
    /\ Len(handled[i].backend) > 0
    /\ Contains(responses[i].text, <<"bad input">>)

\* C11: answering a request, whatever its outcome, leaves every session's
\* state as it was, and a call of a registered tool handled in an Initialized
\* session after a call of the same session whose adapter raised is dispatched
\* and answered with a text result under its own correlation id.
C11_UsableAfterRaise ==
    /\ [][(responses' # responses) => (session' = session)]_vars
    /\ [](\A i, j \in Answered :
             (/\ i < j
              /\ HostRaised(i)
              /\ handled[j].req.session = handled[i].req.session
              /\ handled[j].req.op = "call"
              /\ handled[j].req.name \in RegistryNames(registry)
              /\ handled[j].state = "Initialized")
             => /\ handled[j].dispatched
                /\ responses[j].kind = "text"
                /\ responses[j].cid = handled[j].req.cid
                /\ responses[j].session = handled[j].req.session)

\* A call of openc3_alpha raised "bad input"; the next call of the same session
\* was dispatched and succeeded.
C11_Witness ==
    \E i, j \in Answered :
        /\ i < j
        /\ HostRaised(i)
        /\ handled[j].req.session = handled[i].req.session
        /\ handled[j].state = "Initialized"
        /\ handled[j].dispatched
        /\ responses[j].text = <<"Successfully executed ", "alpha">>

----------------------------------------------------------------------------
(* stream_ping: an async generator driven by a consumer on the event loop  *)

\* a chunk labelled with the loop index itself
ChunkZeroBased(i, count) ==
    <<"Ping ">> \o IntToText(i) \o <<"/">> \o IntToText(count) \o <<" at ">>
        \o Timestamp \o <<"\n">>

\* f"Ping {i+1}/{count} at {timestamp}\n"
Chunk(i, count) ==
    <<"Ping ">> \o IntToText(i + 1) \o <<"/">> \o IntToText(count) \o <<" at ">>
        \o Timestamp \o <<"\n">>

StreamCounts == -1 .. MaxCount
Delays == {0, 1}          \* delay = 0, and some delay > 0

\* stream_ping(count, delay) was called: the generator exists, its body has not run
StreamCreated(count, delay) ==
    [phase |-> "created", count |-> count, delay |-> delay, i |-> 0, chunks |-> <<>>,
     sleeps |-> 0, timer |-> FALSE, cancelled_in |-> "none"]

\* The consumer asks for the first item: `for i in range(count)` is entered
StreamStart ==
    /\ stream.phase = "created"
    /\ stream' = IF stream.count <= 0
                 THEN [stream EXCEPT !.phase = "finished"]
                 ELSE [stream EXCEPT !.phase = "yielded", !.i = 0,
                                     !.chunks = <<Chunk(0, stream.count)>>]
    /\ UNCHANGED <<regVars, gwVars, adVars, running>>

\* The consumer asks for the next item: the body goes on after the yield, into
\* `await asyncio.sleep(delay)` if i < count - 1, else out of the loop.
\* asyncio.sleep arms a timer only for delay > 0; sleep(0) just gives way once.
StreamResume ==
    /\ stream.phase = "yielded"
    /\ stream' = IF stream.i < stream.count - 1
                 THEN [stream EXCEPT !.phase = "sleeping", !.sleeps = @ + 1,
                                     !.timer = (stream.delay > 0)]
                 ELSE [stream EXCEPT !.phase = "finished"]
    /\ UNCHANGED <<regVars, gwVars, adVars, running>>

\* The delay is over: the loop takes its next index and yields the next chunk
SleepDone ==
    /\ stream.phase = "sleeping"
    /\ stream' = [stream EXCEPT !.phase = "yielded", !.timer = FALSE, !.i = @ + 1,
                                !.chunks = Append(@, Chunk(stream.i + 1, stream.count))]
    /\ UNCHANGED <<regVars, gwVars, adVars, running>>

\* a teardown that forgets the delay timer
TeardownLeavesTimer ==
    /\ stream.phase \in {"created", "yielded", "sleeping"}
    /\ stream' = [stream EXCEPT !.phase = "cancelled", !.cancelled_in = stream.phase]
    /\ UNCHANGED <<regVars, gwVars, adVars, running>>

\* The session is torn down: the consuming task is cancelled.  In a delay the
\* CancelledError is raised at the await, asyncio.sleep cancels its timer on the
\* way out, and the body, which has no try, is left.
Teardown ==
    /\ stream.phase \in {"created", "yielded", "sleeping"}
    /\ stream' = [stream EXCEPT !.phase = "cancelled", !.cancelled_in = stream.phase,
                                !.timer = FALSE]
    /\ UNCHANGED <<regVars, gwVars, adVars, running>>

InitStream ==
    /\ stream \in {StreamCreated(count, delay) : count \in StreamCounts, delay \in Delays}
    /\ running = Idle
    /\ call = NoCall
    /\ outcome = NoOutcome
    /\ namespace = <<>>
    /\ pc = "stream_call"
    /\ idx = 0
    /\ built = <<>>
    /\ registry = <<>>
    /\ registered_count = 0
    /\ skipped_count = 0
    /\ startup_error = NoError
    /\ failed_builds = <<>>
    /\ retrieved = <<>>
    /\ GatewayIdle

NextStream == StreamStart \/ StreamResume \/ SleepDone \/ Teardown

SpecStream == InitStream /\ [][NextStream]_vars

\* The consumer keeps asking for items and the event loop lets delays end
SpecStreamLive ==
    SpecStream /\ WF_vars(StreamStart) /\ WF_vars(StreamResume) /\ WF_vars(SleepDone)

----------------------------------------------------------------------------
(* stream_ping claims *)

StreamOver == stream.phase \in {"finished", "cancelled"}

\* the number of chunks asked for
Wanted == IF stream.count > 0 THEN stream.count ELSE 0

Label(k, n) == <<"Ping ">> \o IntToText(k) \o <<"/">> \o IntToText(n)

\* C12: stream_ping(count = N) never holds more than N chunks, the k-th chunk
\* begins "Ping k/N", a stream that is over produces nothing more, a stream
\* that finished has produced exactly N chunks (none for N = 0), and every
\* stream is over eventually.
C12_ExactlyNChunks ==
    /\ [](/\ Len(stream.chunks) <= Wanted
          /\ \A k \in 1 .. Len(stream.chunks) :
                 SubSeq(stream.chunks[k], 1, 4) = Label(k, stream.count)
          /\ (stream.phase = "finished") => (Len(stream.chunks) = Wanted))
    /\ [][StreamOver => (stream' = stream)]_vars
    /\ <>StreamOver

\* stream_ping(3) has finished with its three chunks.
C12_Witness ==
    /\ stream.phase = "finished"
    /\ stream.count = 3
    /\ Len(stream.chunks) = 3
    /\ SubSeq(stream.chunks[3], 1, 4) = <<"Ping ", "3", "/", "3">>

\* where the body of the generator stands, or stood when it was cancelled
BodyAt == IF stream.phase = "cancelled" THEN stream.cancelled_in ELSE stream.phase

\* C13: the stream has begun one delay per chunk but the last (the k-th delay
\* follows the k-th chunk, N - 1 delays when finished), a timer is pending only
\* inside a delay, and a teardown inside a delay leaves no timer pending and
\* no chunk is produced after it.
C13_DelaysAndTeardown ==
    /\ [](/\ stream.sleeps = (IF BodyAt = "sleeping" THEN Len(stream.chunks)
                               ELSE IF Len(stream.chunks) > 0
                               THEN Len(stream.chunks) - 1 ELSE 0)
          /\ (stream.phase = "finished")
                 => (stream.sleeps = (IF Wanted > 0 THEN Wanted - 1 ELSE 0))
          /\ stream.timer => (stream.phase = "sleeping")
          /\ (stream.phase = "cancelled") => ~stream.timer)
    /\ [][(stream.phase = "cancelled") => (stream' = stream)]_vars

\* stream_ping(3, delay > 0) was torn down inside its second delay.
C13_Witness ==
    /\ stream.phase = "cancelled"
    /\ stream.cancelled_in = "sleeping"
    /\ stream.count = 3
    /\ stream.delay > 0
    /\ Len(stream.chunks) = 2
    /\ stream.sleeps = 2

----------------------------------------------------------------------------
(* The gateway on its event loop: a tool function is a coroutine run by the *)
(* loop's one thread, and the host functions are called without await.     *)

\* A host function that does not return
Hangs == [k |-> "hang", v |-> <<>>]

LoopBehaviours == GatewayBehaviours \cup {Hangs}

\* The loop's thread is not inside a host function
EventLoopFree == ~running.busy

InHostCall(req, behav) == [busy |-> TRUE, req |-> req, behav |-> behav]

LoopHandshake(s) == EventLoopFree /\ Handshake(s)

LoopClose(s) == EventLoopFree /\ Close(s)

LoopReject(req) == EventLoopFree /\ RejectRequest(req)

LoopList(req) == EventLoopFree /\ HandleList(req)

LoopUnknown(req) == EventLoopFree /\ HandleCallUnknown(req)

\* call of a hand-written tool that calls no host function (ping)
LoopCallLocal(req) ==
    /\ EventLoopFree
    /\ req.name = <<"ping">>
    /\ HandleCall(req)

\* call of a generic tool: tool_wrapper runs up to `result = func_obj(**kwargs)`,
\* a plain call that keeps the thread until the host function is back
EnterHostCall(req) ==
    /\ EventLoopFree
    /\ pc = "serving"
    /\ req \in wire
    /\ Servable(session[req.session])
    /\ req.op = "call"
    /\ Lookup(registry, req.name) # 0
    /\ registry[Lookup(registry, req.name)].origin = "generic"
    /\ ~CoerceArgs(req.arguments).raised
    /\ \E behav \in LoopBehaviours : running' = InHostCall(req, behav)
    /\ UNCHANGED <<regVars, gwVars, adVars, stream>>

\* the host function returns or raises; the wrapper finishes and is answered
HostCallReturns ==
    /\ running.busy
    /\ running.behav # Hangs
    /\ LET req == running.req
           result == InvokeTool(registry[Lookup(registry, req.name)], req.arguments,
                                running.behav)
       IN  /\ wire' = wire \ {req}
           /\ responses' = Append(responses, Response(req, "text", result.text, <<>>))
           /\ handled' = Append(handled, Handled(req, TRUE, result.backend))
    /\ running' = Idle
    /\ UNCHANGED <<session, sent, nextCid>>
    /\ UNCHANGED <<regVars, adVars, stream>>

\* What the loop can do with one request on the wire
TakeUp(req) ==
    \/ LoopReject(req)
    \/ LoopList(req)
    \/ LoopUnknown(req)
    \/ LoopCallLocal(req)
    \/ EnterHostCall(req)

LoopGateway ==
    \/ \E s \in Sessions : LoopHandshake(s)
    \/ \E s \in Sessions : LoopClose(s)
    \/ \E s \in Sessions, shape \in RequestShapes : Send(s, shape)
    \/ \E req \in wire : LoopReject(req)
    \/ \E req \in wire : LoopList(req)
    \/ \E req \in wire : LoopUnknown(req)
    \/ \E req \in wire : LoopCallLocal(req)
    \/ \E req \in wire : EnterHostCall(req)
    \/ HostCallReturns

NextLoop == NextReg \/ Run \/ LoopGateway

SpecLoop == Init /\ [][NextLoop]_vars

----------------------------------------------------------------------------
(* Event loop claims *)

\* C14: while a call is waiting inside its host function, every request of
\* another session that is on the wire can be taken up by the gateway.
C14_CallsIndependent ==
    \A req \in wire :
        (running.busy /\ req.session # running.req.session) => ENABLED TakeUp(req)

----------------------------------------------------------------------------
(* Calls of the generic tools after a registration of several candidates *)

BindBehaviours == {Returns(PyNone), Returns(PyInt(5)), Raises(<<"bad input">>)}

\* A client calls one of the generic tools the loop registered, by its name
CallRegisteredTool ==
    /\ pc = "registered"
    /\ ~outcome.done
    /\ \E k \in GenericEntries(registry), behav \in BindBehaviours :
           /\ call' = [tool |-> "registered", name |-> registry[k].name,
                       kwargs |-> <<>>, behav |-> behav]
           /\ outcome' = Done(InvokeTool(registry[k], <<>>, behav))
    /\ UNCHANGED <<regVars, gwVars, exVars>>

NextBind == NextReg \/ CallRegisteredTool

SpecBind == InitReg /\ [][NextBind]_vars

\* The member a generic tool of this exposed name was built from
BuiltFrom(name) == Tail(name)

\* C30: calling the generic tool openc3_<name> invokes the member <name> and
\* names <name> in the success placeholder and in the error text, however many
\* candidates the loop registered.
C30_BoundToOwnMember ==
    (outcome.done /\ call.tool = "registered") =>
        LET member == BuiltFrom(call.name)
        IN  /\ Len(outcome.backend) = 1
            /\ outcome.backend[1].fn = member
            /\ call.behav = Returns(PyNone) =>
                   outcome.text = <<"Successfully executed ">> \o member
            /\ call.behav.k = "raise" =>
                   outcome.text = <<"Error", " executing ">> \o member \o <<": ">>
                                      \o call.behav.v

\* alpha and beta were both registered, and openc3_alpha, the first of them,
\* was called: it invoked alpha.
C30_Witness ==
    /\ outcome.done
    /\ call.tool = "registered"
    /\ built = << <<"alpha">>, <<"beta">> >>
    /\ registered_count = 2
    /\ call.name = <<"openc3_", "alpha">>
    /\ outcome.backend[1].fn = <<"alpha">>
    /\ outcome.text = <<"Successfully executed ", "alpha">>

============================================================================
